---- MODULE Spec2Model ----
(***************************************************************************)
(* A model of csvquery's core engine: the external sorter, the block       *)
(* writer and the on-disk index search (pkg/csvquery/index), the parallel  *)
(* CSV scanner (pkg/csvquery/parser) and the query planner/executor        *)
(* (pkg/csvquery/query and go/internal/query).                             *)
(*                                                                         *)
(* Bytes are small integers, byte strings are sequences of bytes.  The     *)
(* [64]byte record key of the source is kept as a KeySize-byte tuple,      *)
(* zero padded on the right, and the 64 KiB block target as                *)
(* BlockTargetSize: both are scaled down so that truncation and block      *)
(* splits happen on small inputs.                                          *)
(***************************************************************************)
EXTENDS Integers, Sequences, FiniteSets, TLC

VARIABLES
    sorter,     \* Sorter: memBuffer, chunkFiles, chunkSize, state, totalRecords
    added,      \* every record handed to Sorter.Add, in arrival order
    merge,      \* kWayMerge locals: heap, per-chunk read positions, distinct count
    bw,         \* BlockWriter and the output file it writes
    iter,       \* the query side: DiskIndex.Search and its diskIterator
    csv,        \* the bytes of the CSV file (the mmap'ed p.data)
    scan,       \* one parser and its Scan: boundaries, start lines, handler calls
    store,      \* the index directory, the override map and the binary in use
    query,      \* the request handed to the query engine and what it wrote
    build       \* IndexManager.Run: its position, goroutines, channels, temp dir

idxVars == <<sorter, added, merge, bw, iter>>

scanVars == <<csv, scan>>

queryVars == <<store, query>>

vars == <<sorter, added, merge, bw, iter, csv, scan, store, query, build>>

----------------------------------------------------------------------------
(* Bounds of the model *)

\* bytes kept of the record key ([64]byte in the source)
KeySize == 9
\* records handed to one Sorter
MaxRecords == 4
\* largest Sorter.chunkSize tried (max(memoryLimit/100, 1000) in the source)
MaxChunkSize == 2
\* raw bytes after which the block writer flushes (64 * 1024 in the source)
BlockTargetSize == 50
\* bytes of the CSV body handed to the scanner
MaxBody == 6
\* largest worker count tried
MaxWorkers == 2
\* data rows of the generated CSV files (scenario S1, with 4 rows, is added)
MaxRows == 3

\* records handed to one block writer
MaxWritten == 3

\* batchSize of Run, 1000 in the source
BatchSize == 2

\* bytes of the bloom filter's bit array (at least 128 in the source)
BloomBytes == 2
\* hash functions of the bloom filter (1 to 10 in the source)
BloomHashCount == 2

\* bytes of offset and line that WriteRecord adds to len(rec.Key)
OffsetLineBytes == 16

\* the reflected polynomial and the all-ones register of the CRC, at 16 bits
\* where crc32.ChecksumIEEE has 32
CrcPoly == 40961
CrcMask == 65535

\* bytes of one field of the serialized bloom header (size, hashCount, count)
BloomFieldBytes == 8

\* StateCollecting, StateMerging, StateDone
StateCollecting == 0
StateMerging == 1
StateDone == 2

\* the bytes the parser looks for: '"', '\n', ',', '\r', and the '[' and ']' of
\* a composite key
Quote == 34
NewLine == 10
Comma == 44
CarriageReturn == 13
LeftBracket == 91
RightBracket == 93

\* no index built, no override loaded, no request made
NoStore == [tree |-> "none", indexes |-> {}, updates |-> <<>>, updatesFile |-> "absent"]

NoQuery == [done |-> FALSE]

\* a parser that has not been asked to scan
NoScan ==
    [impl |-> "none", phase |-> "idle", round |-> 0, workers |-> 0,
     boundaries |-> <<>>, startLines |-> <<>>, todo |-> {}, emitted |-> {},
     first |-> {}, firstWorkers |-> 0, rowsScanned |-> 0,
     pending |-> <<>>, log |-> <<>>]

\* no IndexManager.Run under way
NoBuild == [pc |-> "none"]

----------------------------------------------------------------------------
(* Byte strings *)

Min(a, b) == IF a < b THEN a ELSE b

Range(s) == {s[i] : i \in 1..Len(s)}

\* bytes.Compare: lexicographic order of two byte strings, -1, 0 or 1
RECURSIVE bytesCompareFrom(_, _, _)
bytesCompareFrom(a, b, i) ==
    IF i > Len(a) /\ i > Len(b) THEN 0
    ELSE IF i > Len(a) THEN -1
    ELSE IF i > Len(b) THEN 1
    ELSE IF a[i] < b[i] THEN -1
    ELSE IF a[i] > b[i] THEN 1
    ELSE bytesCompareFrom(a, b, i + 1)

bytesCompare(a, b) == bytesCompareFrom(a, b, 1)

\* var keyBytes [64]byte; copy(keyBytes[:], key): the first KeySize bytes of
\* key, zero padded on the right
copyKey(key) == [i \in 1..KeySize |-> IF i <= Len(key) THEN key[i] ELSE 0]

\* bytes.TrimRight(key[:], "\x00")
RECURSIVE TrimRight(_)
TrimRight(key) ==
    IF Len(key) > 0 /\ key[Len(key)] = 0
    THEN TrimRight(SubSeq(key, 1, Len(key) - 1))
    ELSE key

\* a comparison that takes a key for the search key as soon as their first
\* bytes agree
compareFirstByte(key, searchKey) ==
    IF Len(searchKey) > 0 /\ key[1] = searchKey[1] THEN 0
    ELSE bytesCompare(TrimRight(key), searchKey)

\* compareRecordKey: the record key without its trailing zero bytes against
\* the search key
compareRecordKey(key, searchKey) == bytesCompare(TrimRight(key), searchKey)

----------------------------------------------------------------------------
(* Index records and the external sorter (Sorter, block_io.go) *)

\* the keys and records the model hands to a sorter: types.IndexRecord
KeyPool == {copyKey(<<97>>), copyKey(<<98>>), copyKey(<<98, 98>>)}

\* every row of a CSV file has its own byte offset
OffsetPool == 1..MaxRecords

RecPool == {[key |-> k, offset |-> o, line |-> o + 1] : k \in KeyPool, o \in OffsetPool}

\* a comparator that looks at the key bytes only
recordCmpByKey(a, b) == bytesCompare(a.key, b.key)

\* the comparator flushChunk hands to slices.SortFunc: key bytes, then offset
recordCmp(a, b) ==
    LET cmp == bytesCompare(a.key, b.key) IN
    IF cmp # 0 THEN cmp
    ELSE IF a.offset < b.offset THEN -1
    ELSE IF a.offset > b.offset THEN 1
    ELSE 0

\* insert rec into the sorted sequence s, after the records it does not precede
RECURSIVE insertSorted(_, _, _)
insertSorted(s, rec, i) ==
    IF i > Len(s) THEN Append(s, rec)
    ELSE IF recordCmp(rec, s[i]) < 0
         THEN SubSeq(s, 1, i - 1) \o <<rec>> \o SubSeq(s, i, Len(s))
         ELSE insertSorted(s, rec, i + 1)

\* slices.SortFunc(s.memBuffer, cmp)
RECURSIVE SortFunc(_)
SortFunc(buf) ==
    IF Len(buf) = 0 THEN <<>>
    ELSE insertSorted(SortFunc(SubSeq(buf, 1, Len(buf) - 1)), buf[Len(buf)], 1)

\* the distinctCount loop of flushChunk: key changes along the sorted chunk
distinctRuns(s) ==
    Cardinality({i \in 1..Len(s) : i = 1 \/ s[i].key # s[i - 1].key})

NewSorter(chunkSize, withBloom) ==
    [memBuffer |-> <<>>, chunkFiles |-> <<>>, chunkDistincts |-> <<>>,
     chunkSize |-> chunkSize, totalRecords |-> 0, state |-> StateCollecting,
     bloom |-> withBloom]

\* Sorter.flushChunk: sort the buffer, write it as the next chunk file, reset
flushChunk(s) ==
    IF Len(s.memBuffer) = 0 THEN s
    ELSE LET sorted == SortFunc(s.memBuffer) IN
         [s EXCEPT !.chunkFiles = Append(@, sorted),
                   !.chunkDistincts = Append(@, distinctRuns(sorted)),
                   !.memBuffer = <<>>]

\* Sorter.Add
SorterAdd(s, rec) ==
    LET s1 == [s EXCEPT !.memBuffer = Append(@, rec), !.totalRecords = @ + 1] IN
    IF Len(s1.memBuffer) >= s1.chunkSize THEN flushChunk(s1) ELSE s1

----------------------------------------------------------------------------
(* The block writer (BlockWriter, block_io.go) *)

\* len(MagicCIDX)
MagicLen == 4

\* the bytes one record takes in a block: types.RecordSize
RecordSize == KeySize + OffsetLineBytes

\* the bytes of one integer field of a record
Int64Bytes == 8

\* the largest and the least integer of the model
MaxInt == (2 ^ 30 - 1) * 2 + 1

MinInt == -MaxInt - 1

\* n >= 0 as k bytes, most significant first
RECURSIVE bigEndian(_, _)
bigEndian(n, k) ==
    IF k = 0 THEN <<>> ELSE Append(bigEndian(n \div 256, k - 1), n % 256)

\* the number k bytes stand for, most significant first
RECURSIVE bigEndianValue(_)
bigEndianValue(bytes) ==
    IF Len(bytes) = 0 THEN 0
    ELSE bigEndianValue(SubSeq(bytes, 1, Len(bytes) - 1)) * 256 + bytes[Len(bytes)]

\* an encoding that writes the magnitude of v and loses its sign
PutMagnitude(v) == bigEndian(IF v >= 0 THEN v ELSE -(v + 1), Int64Bytes)

\* binary.BigEndian.PutUint64(buf, uint64(v)): two's complement of v
PutInt64(v) ==
    IF v >= 0 THEN bigEndian(v, Int64Bytes)
    ELSE LET ones == bigEndian(-(v + 1), Int64Bytes) IN
         [i \in 1..Int64Bytes |-> 255 - ones[i]]

\* int64(binary.BigEndian.Uint64(buf))
ReadInt64(bytes) ==
    IF bytes[1] >= 128
    THEN -bigEndianValue([i \in 1..Int64Bytes |-> 255 - bytes[i]]) - 1
    ELSE bigEndianValue(bytes)

\* storage.WriteBatchRecords: key, offset and line of every record in a row
RECURSIVE WriteBatchRecords(_)
WriteBatchRecords(recs) ==
    IF Len(recs) = 0 THEN <<>>
    ELSE recs[1].key \o PutInt64(recs[1].offset) \o PutInt64(recs[1].line)
         \o WriteBatchRecords(Tail(recs))

\* storage.ReadRecord until io.EOF: the records of a raw batch; a rest shorter
\* than a record is an error and yields nothing
RECURSIVE ReadRecords(_)
ReadRecords(raw) ==
    IF Len(raw) < RecordSize THEN <<>>
    ELSE <<[key |-> SubSeq(raw, 1, KeySize),
            offset |-> ReadInt64(SubSeq(raw, KeySize + 1, KeySize + Int64Bytes)),
            line |-> ReadInt64(SubSeq(raw, KeySize + Int64Bytes + 1, RecordSize))]>>
         \o ReadRecords(SubSeq(raw, RecordSize + 1, Len(raw)))

\* the frame lz4.Writer puts around a batch: its magic number in front, the
\* end mark behind; the block coding in between is left out
Lz4Magic == <<4, 34, 77, 24>>

Lz4EndMark == <<0, 0, 0, 0>>

lz4Write(raw) == Lz4Magic \o raw \o Lz4EndMark

\* lz4.NewReader over the bytes of a block
lz4Read(bytes) ==
    IF Len(bytes) >= Len(Lz4Magic) + Len(Lz4EndMark)
       /\ SubSeq(bytes, 1, Len(Lz4Magic)) = Lz4Magic
    THEN SubSeq(bytes, Len(Lz4Magic) + 1, Len(bytes) - Len(Lz4EndMark))
    ELSE <<>>

\* a length taken before compression
rawLen(buffer) == Len(WriteBatchRecords(buffer))

\* len(compressedBytes) of FlushBlock
compressedLen(buffer) == Len(lz4Write(WriteBatchRecords(buffer)))

\* fmt.Sprintf("%d", n) for n >= 0
RECURSIVE itoa(_)
itoa(n) == IF n < 10 THEN <<48 + n>> ELSE itoa(n \div 10) \o <<48 + (n % 10)>>

NoFile ==
    [created |-> FALSE, blocks |-> <<>>, footer |-> FALSE, directory |-> <<>>,
     trailer |-> <<>>]

\* NewBlockWriter on a freshly created output file
NewBlockWriter ==
    [buffer |-> <<>>, currentSize |-> 0, sparseIndex |-> <<>>, offset |-> MagicLen,
     file |-> [NoFile EXCEPT !.created = TRUE]]

\* BlockWriter.FlushBlock
FlushBlock(w) ==
    IF Len(w.buffer) = 0 THEN w
    ELSE LET meta == [startKey |-> TrimRight(w.buffer[1].key),
                      offset |-> w.offset,
                      length |-> compressedLen(w.buffer),
                      recordCount |-> Len(w.buffer),
                      isDistinct |-> \A i \in 2..Len(w.buffer) :
                                        w.buffer[i].key = w.buffer[1].key]
         IN [w EXCEPT !.sparseIndex = Append(@, meta),
                      !.file.blocks = Append(@, [offset |-> w.offset,
                                                 bytes |-> lz4Write(WriteBatchRecords(w.buffer))]),
                      !.offset = @ + meta.length,
                      !.buffer = <<>>,
                      !.currentSize = 0]

\* BlockWriter.WriteRecord
WriteRecord(w, rec) ==
    LET w1 == [w EXCEPT !.buffer = Append(@, rec),
                        !.currentSize = @ + Len(rec.key) + OffsetLineBytes] IN
    IF w1.currentSize >= BlockTargetSize THEN FlushBlock(w1) ELSE w1

\* json.Marshal of one BlockMeta
marshalMeta(meta) ==
    <<123, 34, 115, 116, 97, 114, 116, 75, 101, 121, 34, 58, 34>> \o meta.startKey
    \o <<34, 44, 34, 111, 102, 102, 115, 101, 116, 34, 58>> \o itoa(meta.offset)
    \o <<44, 34, 108, 101, 110, 103, 116, 104, 34, 58>> \o itoa(meta.length)
    \o <<44, 34, 114, 101, 99, 111, 114, 100, 67, 111, 117, 110, 116, 34, 58>> \o itoa(meta.recordCount)
    \o <<44, 34, 105, 115, 68, 105, 115, 116, 105, 110, 99, 116, 34, 58>>
    \o (IF meta.isDistinct THEN <<116, 114, 117, 101>> ELSE <<102, 97, 108, 115, 101>>) \o <<125>>

RECURSIVE marshalBlocks(_)
marshalBlocks(blocks) ==
    IF Len(blocks) = 0 THEN <<>>
    ELSE IF Len(blocks) = 1 THEN marshalMeta(blocks[1])
    ELSE marshalMeta(blocks[1]) \o <<44>> \o marshalBlocks(Tail(blocks))

\* json.Marshal(bw.sparseIndex): {"blocks":[...]}, or null for no block
marshalDirectory(blocks) ==
    <<123, 34, 98, 108, 111, 99, 107, 115, 34, 58>>
    \o (IF Len(blocks) = 0 THEN <<110, 117, 108, 108>> ELSE <<91>> \o marshalBlocks(blocks) \o <<93>>)
    \o <<125>>

\* BlockWriter.Close: flush the remainder, then the directory and its length
BlockWriterClose(w) ==
    LET w1 == FlushBlock(w)
        footerBytes == marshalDirectory(w1.sparseIndex)
    IN [w1 EXCEPT !.file.footer = TRUE,
                  !.file.directory = footerBytes,
                  !.file.trailer = PutInt64(Len(footerBytes))]

----------------------------------------------------------------------------
(* The bloom filter (BloomFilter, Serialize, DeserializeBloom) *)

\* a ^ b on non-negative numbers
RECURSIVE xor(_, _)
xor(a, b) ==
    IF a = 0 THEN b
    ELSE IF b = 0 THEN a
    ELSE ((a + b) % 2) + 2 * xor(a \div 2, b \div 2)

\* crc32.IEEETable: for every byte the register after eight shifts, each
\* followed by ^ CrcPoly when the bit shifted out is set
CrcTable ==
    LET RECURSIVE shift(_, _)
        shift(crc, n) ==
            IF n = 0 THEN crc
            ELSE shift(IF crc % 2 = 1 THEN xor(crc \div 2, CrcPoly) ELSE crc \div 2, n - 1)
    IN [b \in 0..255 |-> shift(b, 8)]

\* crc32.ChecksumIEEE: crc = table[byte(crc) ^ b] ^ (crc >> 8) over the bytes of
\* data, the register inverted before and after (the test of next only makes
\* each pass finish before the following one starts)
ChecksumIEEE(data) ==
    LET RECURSIVE update(_, _)
        update(crc, i) ==
            IF i > Len(data) THEN crc
            ELSE LET next == xor(CrcTable[xor(crc % 256, data[i])], crc \div 256)
                 IN IF next < 0 THEN next ELSE update(next, i + 1)
    IN xor(update(CrcMask, 1), CrcMask)

\* appendReversed(buf[:0], keyBytes) followed by append(reversed, "salt"...)
appendReversed(s) == [i \in 1..Len(s) |-> s[Len(s) + 1 - i]] \o <<115, 97, 108, 116>>

\* h1 and h2 of Add and MightContain for the keys of the record pool, computed
\* once: the checksum of the key, and of the reversed key followed by "salt"
PoolHashes ==
    [k \in {TrimRight(key) : key \in KeyPool} |->
        <<ChecksumIEEE(k), ChecksumIEEE(appendReversed(k))>>]

\* the bit positions of key: (h1 + i*h2) % size for i < hashCount; both hashes
\* are non-negative, so combined is never negated
bloomPositions(bf, key) ==
    LET h1 == IF key \in DOMAIN PoolHashes THEN PoolHashes[key][1] ELSE ChecksumIEEE(key)
        h2 == IF key \in DOMAIN PoolHashes THEN PoolHashes[key][2]
              ELSE ChecksumIEEE(appendReversed(key))
    IN [i \in 1..bf.hashCount |-> (h1 + (i - 1) * h2) % bf.size]

\* bf.bits[byteIdx] & (1 << bitIdx) != 0
bitSet(bits, pos) == (bits[(pos \div 8) + 1] \div (2 ^ (pos % 8))) % 2 = 1

\* NewBloomFilter: m bits rounded up to whole bytes, all clear
NewBloomFilter ==
    [bits |-> [i \in 1..BloomBytes |-> 0], size |-> BloomBytes * 8,
     hashCount |-> BloomHashCount, count |-> 0]

\* an Add that sets no bit
BloomAddNothing(bf, key) == bf

\* BloomFilter.Add(key)
BloomAdd(bf, key) ==
    LET pos == bloomPositions(bf, key)
        RECURSIVE setFrom(_, _)
        setFrom(bits, i) ==
            IF i > Len(pos) THEN bits
            ELSE setFrom(IF bitSet(bits, pos[i]) THEN bits
                         ELSE [bits EXCEPT ![(pos[i] \div 8) + 1] = @ + 2 ^ (pos[i] % 8)],
                         i + 1)
    IN [bf EXCEPT !.bits = setFrom(bf.bits, 1), !.count = @ + 1]

\* BloomFilter.MightContain(key)
MightContain(bf, key) ==
    LET pos == bloomPositions(bf, key)
    IN \A i \in 1..bf.hashCount : bitSet(bf.bits, pos[i])

\* BloomFilter.Serialize: size, hashCount and count as big-endian 64-bit
\* numbers, then the bit array
Serialize(bf) ==
    LET RECURSIVE PutUint64(_, _)
        PutUint64(n, k) == IF k = 0 THEN <<>>
                           ELSE PutUint64(n \div 256, k - 1) \o <<n % 256>>
    IN PutUint64(bf.size, BloomFieldBytes) \o PutUint64(bf.hashCount, BloomFieldBytes)
       \o PutUint64(bf.count, BloomFieldBytes) \o bf.bits

\* DeserializeBloom(data); nil, here a filter of size 0, when data is shorter
\* than the header
DeserializeBloom(data) ==
    LET RECURSIVE Uint64(_, _, _)
        Uint64(from, k, acc) == IF k = 0 THEN acc
                                ELSE Uint64(from + 1, k - 1, acc * 256 + data[from])
    IN IF Len(data) < 3 * BloomFieldBytes
       THEN [bits |-> <<>>, size |-> 0, hashCount |-> 0, count |-> 0]
       ELSE [bits |-> SubSeq(data, 3 * BloomFieldBytes + 1, Len(data)),
             size |-> Uint64(1, BloomFieldBytes, 0),
             hashCount |-> Uint64(BloomFieldBytes + 1, BloomFieldBytes, 0),
             count |-> Uint64(2 * BloomFieldBytes + 1, BloomFieldBytes, 0)]

----------------------------------------------------------------------------
(* The k-way merge (manualHeap, mergeItem, Sorter.kWayMerge) *)

\* a heap order that looks at the offsets only
LessByOffset(m, other) == m.record.offset < other.record.offset

\* a heap order that looks at the key bytes only
LessByKey(m, other) == bytesCompare(m.record.key, other.record.key) < 0

\* mergeItem.Less
Less(m, other) ==
    LET cmp == bytesCompare(m.record.key, other.record.key) IN
    IF cmp # 0 THEN cmp < 0 ELSE m.record.offset < other.record.offset

\* manualHeap.Swap; heap positions are 0-based as in the source
heapSwap(h, i, j) == [h EXCEPT ![i + 1] = h[j + 1], ![j + 1] = h[i + 1]]

\* manualHeap.down(i0, n)
RECURSIVE heapDown(_, _, _)
heapDown(h, i, n) ==
    LET j1 == 2 * i + 1 IN
    IF j1 >= n \/ j1 < 0 THEN h
    ELSE LET j2 == j1 + 1
             j == IF j2 < n /\ Less(h[j2 + 1], h[j1 + 1]) THEN j2 ELSE j1
         IN IF ~Less(h[j + 1], h[i + 1]) THEN h
            ELSE heapDown(heapSwap(h, j, i), j, n)

\* manualHeap.up(j); Go's (j - 1) / 2 truncates towards zero, so it is 0 at j = 0
RECURSIVE heapUp(_, _)
heapUp(h, j) ==
    LET i == IF j = 0 THEN 0 ELSE (j - 1) \div 2 IN
    IF i = j \/ ~Less(h[j + 1], h[i + 1]) THEN h
    ELSE heapUp(heapSwap(h, i, j), i)

\* manualHeap.Push
heapPush(h, x) == heapUp(Append(h, x), Len(h))

\* manualHeap.Pop: the heap left after the root is taken
heapPop(h) ==
    LET n == Len(h)
        old == [h EXCEPT ![1] = h[n]]
    IN heapDown(SubSeq(old, 1, n - 1), 0, n - 1)

\* the loop "for i := n/2 - 1; i >= 0; i-- { h.down(i, n) }"
RECURSIVE heapify(_, _)
heapify(h, i) == IF i < 0 THEN h ELSE heapify(heapDown(h, i, Len(h)), i - 1)

NoMerge ==
    [heap |-> <<>>, pos |-> <<>>, distinctCount |-> 0, lastKey |-> copyKey(<<>>),
     firstRecord |-> TRUE, bloomKeys |-> {}, bloomAdds |-> 0,
     bloom |-> NewBloomFilter,
     bloomFile |-> <<>>, result |-> -1]

\* kWayMerge up to its loop: one reader per chunk, the first record of each
\* chunk in the heap
mergeStart(s) ==
    LET k == Len(s.chunkFiles)
        h == [i \in 1..k |-> [record |-> s.chunkFiles[i][1], source |-> i - 1]]
    IN [NoMerge EXCEPT !.heap = heapify(h, (k \div 2) - 1),
                       !.pos = [i \in 1..k |-> 2]]

\* ReadRecord on the reader of chunk file src (1-based here): its next record,
\* or none at the end of the file
chunkHasNext(s, m, src) == m.pos[src] <= Len(s.chunkFiles[src])

\* one pass of the loop "for len(h) > 0" of kWayMerge: the merge state after it
mergeLoop(s, m) ==
    LET item == m.heap[1]
        rec == item.record
        src == item.source + 1
        fresh == m.firstRecord \/ rec.key # m.lastKey
        h1 == heapPop(m.heap)
        h2 == IF chunkHasNext(s, m, src)
              THEN heapPush(h1, [record |-> s.chunkFiles[src][m.pos[src]],
                                 source |-> item.source])
              ELSE h1
    IN [m EXCEPT !.heap = h2,
                 !.pos[src] = IF chunkHasNext(s, m, src) THEN @ + 1 ELSE @,
                 !.distinctCount = IF fresh THEN @ + 1 ELSE @,
                 !.bloomKeys = IF fresh /\ s.bloom THEN @ \cup {TrimRight(rec.key)} ELSE @,
                 !.bloomAdds = IF fresh /\ s.bloom THEN @ + 1 ELSE @,
                 !.bloom = IF fresh /\ s.bloom THEN BloomAdd(@, TrimRight(rec.key)) ELSE @,
                 !.lastKey = IF fresh THEN rec.key ELSE @,
                 !.firstRecord = IF fresh THEN FALSE ELSE @]

----------------------------------------------------------------------------
(* The on-disk index (BlockReader, DiskIndex, diskIterator) *)

\* NewBlockReader succeeds on a file that ends with a directory and its length
readable(file) == file.created /\ file.footer

\* BlockReader.ReadBlock: the records of the block at meta.offset
ReadBlock(file, meta) ==
    LET b == CHOOSE b \in Range(file.blocks) : b.offset = meta.offset IN
    ReadRecords(lz4Read(SubSeq(b.bytes, 1, meta.length)))

\* the binary search of findStartBlock: the last block whose StartKey <= key
RECURSIVE searchBlocks(_, _, _, _, _)
searchBlocks(blocks, key, left, right, result) ==
    IF left > right THEN result
    ELSE LET mid == (left + right) \div 2 IN
         IF bytesCompare(blocks[mid + 1].startKey, key) <= 0
         THEN searchBlocks(blocks, key, mid + 1, right, mid)
         ELSE searchBlocks(blocks, key, left, mid - 1, result)

\* "for result > 0 && blocks[result-1].StartKey == key { result-- }"
RECURSIVE backUp(_, _, _)
backUp(blocks, key, result) ==
    IF result > 0 /\ blocks[result].startKey = key
    THEN backUp(blocks, key, result - 1)
    ELSE result

\* DiskIndex.findStartBlock: the 0-based block the iteration starts at, or -1
findStartBlock(blocks, key) ==
    LET result == searchBlocks(blocks, key, 0, Len(blocks) - 1, -1) IN
    IF result = -1 THEN -1
    ELSE IF blocks[result + 1].startKey = key THEN backUp(blocks, key, result)
    ELSE result

NoIter ==
    [open |-> FALSE, empty |-> FALSE, searchKey |-> <<>>, scanMode |-> FALSE,
     currentBlock |-> 0, records |-> <<>>, recordIndex |-> 0, totalBlocks |-> 0,
     done |-> FALSE, found |-> <<>>, blocksRead |-> 0]

\* diskIterator.Next: the iterator after the call; it returned true exactly when
\* found grew by the record Record() then returns
RECURSIVE diskIteratorNext(_, _, _)
diskIteratorNext(file, blocks, it) ==
    IF it.done \/ it.empty THEN [it EXCEPT !.done = TRUE]
    ELSE IF it.recordIndex >= Len(it.records)
    THEN IF it.currentBlock >= it.totalBlocks THEN [it EXCEPT !.done = TRUE]
         ELSE LET blockMeta == blocks[it.currentBlock + 1] IN
              IF ~it.scanMode /\ bytesCompare(blockMeta.startKey, it.searchKey) > 0
              THEN [it EXCEPT !.done = TRUE]
              ELSE diskIteratorNext(file, blocks,
                       [it EXCEPT !.records = ReadBlock(file, blockMeta),
                                  !.recordIndex = 0,
                                  !.currentBlock = @ + 1,
                                  !.blocksRead = @ + 1])
    ELSE LET rec == it.records[it.recordIndex + 1]
             it1 == [it EXCEPT !.recordIndex = @ + 1]
             cmp == compareRecordKey(rec.key, it.searchKey)
         IN IF it.scanMode \/ cmp = 0 THEN [it1 EXCEPT !.found = Append(@, rec)]
            ELSE IF cmp < 0 THEN diskIteratorNext(file, blocks, it1)
            ELSE [it1 EXCEPT !.done = TRUE]

\* a search that does not consult the bloom filter
SearchIgnoringBloom(blocks, key, hasBloom, mightContain) ==
    LET startBlockIdx == findStartBlock(blocks, key) IN
    IF startBlockIdx = -1
    THEN [NoIter EXCEPT !.open = TRUE, !.empty = TRUE, !.searchKey = key]
    ELSE [NoIter EXCEPT !.open = TRUE, !.searchKey = key,
                        !.currentBlock = startBlockIdx,
                        !.totalBlocks = Len(blocks)]

\* DiskIndex.Search: the iterator it returns; mightContain is the answer of the
\* bloom filter when one was loaded
DiskIndexSearch(blocks, key, hasBloom, mightContain) ==
    LET startBlockIdx == findStartBlock(blocks, key) IN
    IF (hasBloom /\ ~mightContain) \/ startBlockIdx = -1
    THEN [NoIter EXCEPT !.open = TRUE, !.empty = TRUE, !.searchKey = key]
    ELSE [NoIter EXCEPT !.open = TRUE, !.searchKey = key,
                        !.currentBlock = startBlockIdx,
                        !.totalBlocks = Len(blocks)]

----------------------------------------------------------------------------
(* Specification SpecIndex: one sorter fed in any order, finalized, and the    *)
(* index it wrote searched for one key.                                        *)

NoWriter ==
    [buffer |-> <<>>, currentSize |-> 0, sparseIndex |-> <<>>, offset |-> 0,
     file |-> NoFile]

NoBag == [r \in RecPool |-> 0]

InitIndex ==
    /\ sorter \in {NewSorter(cs, b) : cs \in 1..MaxChunkSize, b \in BOOLEAN}
    /\ added = NoBag
    /\ merge = NoMerge
    /\ bw = NoWriter
    /\ iter = NoIter
    /\ csv = <<>>
    /\ scan = NoScan
    /\ store = NoStore
    /\ query = NoQuery
    /\ build = NoBuild

\* Sorter.Add(record)
Add(rec) ==
    /\ sorter.state = StateCollecting
    /\ sorter.totalRecords < MaxRecords
    /\ \A r \in RecPool : r.offset = rec.offset => added[r] = 0
    /\ sorter' = SorterAdd(sorter, rec)
    /\ added' = [added EXCEPT ![rec] = @ + 1]
    /\ UNCHANGED <<merge, bw, iter, scanVars, queryVars, build>>

\* Sorter.Finalize up to the merge loop: flush the tail chunk; without any chunk
\* create an empty output file and return 0, else open the merge
Finalize ==
    /\ sorter.state = StateCollecting
    /\ LET s1 == flushChunk(sorter) IN
       IF Len(s1.chunkFiles) = 0
       THEN /\ sorter' = [s1 EXCEPT !.state = StateDone]
            /\ bw' = [NoWriter EXCEPT !.file.created = TRUE]
            /\ merge' = [NoMerge EXCEPT !.result = 0,
                                        !.bloomFile = IF s1.bloom THEN Serialize(NoMerge.bloom)
                                                      ELSE <<>>]
       ELSE /\ sorter' = [s1 EXCEPT !.state = StateMerging]
            /\ bw' = NewBlockWriter
            /\ merge' = mergeStart(s1)
    /\ UNCHANGED <<added, iter, scanVars, queryVars, build>>

\* one pass of the merge loop: pop the least record, write it, refill the heap
kWayMergeLoop ==
    /\ sorter.state = StateMerging
    /\ Len(merge.heap) > 0
    /\ bw' = WriteRecord(bw, merge.heap[1].record)
    /\ merge' = mergeLoop(sorter, merge)
    /\ UNCHANGED <<sorter, added, iter, scanVars, queryVars, build>>

\* the end of kWayMerge and of Finalize: close the writer, return distinctCount;
\* runSorterNode then writes the serialized bloom filter next to the index
kWayMergeClose ==
    /\ sorter.state = StateMerging
    /\ Len(merge.heap) = 0
    /\ bw' = BlockWriterClose(bw)
    /\ merge' = [merge EXCEPT !.result = merge.distinctCount,
                              !.bloomFile = IF sorter.bloom THEN Serialize(merge.bloom)
                                            ELSE <<>>]
    /\ sorter' = [sorter EXCEPT !.state = StateDone]
    /\ UNCHANGED <<added, iter, scanVars, queryVars, build>>

\* the keys a query may look for: those of the pool, without their padding
SearchKeys == {TrimRight(k) : k \in KeyPool}

\* OpenDiskIndex, which loads the bloom file when there is one, and
\* DiskIndex.Search(key)
Search(key) ==
    /\ sorter.state = StateDone
    /\ readable(bw.file)
    /\ ~iter.open
    /\ iter' = DiskIndexSearch(bw.sparseIndex, key, sorter.bloom,
                               MightContain(DeserializeBloom(merge.bloomFile), key))
    /\ UNCHANGED <<sorter, added, merge, bw, scanVars, queryVars, build>>

\* diskIterator.Next(), also on an iterator that has returned false before
IterNext ==
    /\ iter.open
    /\ iter' = diskIteratorNext(bw.file, bw.sparseIndex, iter)
    /\ UNCHANGED <<sorter, added, merge, bw, scanVars, queryVars, build>>

NextIndex ==
    \/ \E rec \in RecPool : Add(rec)
    \/ Finalize
    \/ kWayMergeLoop
    \/ kWayMergeClose
    \/ \E key \in SearchKeys : Search(key)
    \/ IterNext

SpecIndex == InitIndex /\ [][NextIndex]_vars

----------------------------------------------------------------------------
(* Properties of SpecIndex *)

\* the records of the output file, block after block: what decoding it yields
RECURSIVE decodeBlocks(_)
decodeBlocks(blocks) ==
    IF Len(blocks) = 0 THEN <<>>
    ELSE ReadRecords(lz4Read(blocks[1].bytes))
         \o decodeBlocks(SubSeq(blocks, 2, Len(blocks)))

occurrences(s, x) == Cardinality({i \in 1..Len(s) : s[i] = x})

\* a precedes or equals b by key bytes, then offset
inOrder(a, b) ==
    \/ bytesCompare(a.key, b.key) < 0
    \/ a.key = b.key /\ a.offset <= b.offset

searchFinished == iter.open /\ iter.done

\* C1: once a search for key K has run to its end, every record of the file
\* whose trimmed key is K has been returned, as often as it is stored, also
\* when the run of K starts inside a block whose start key is below K.
C1_SearchYieldsEveryMatch ==
    searchFinished =>
        \A r \in RecPool :
            TrimRight(r.key) = iter.searchKey =>
                occurrences(iter.found, r) = occurrences(decodeBlocks(bw.file.blocks), r)

\* C4: after Finalize the decoded records are exactly the multiset that was
\* added, they are non-decreasing by (key bytes, offset), and the start keys of
\* the directory are non-decreasing.
C4_FinalizeSortedMultiset ==
    sorter.state = StateDone =>
        LET out == decodeBlocks(bw.file.blocks)
            dir == bw.sparseIndex
        IN /\ \A r \in RecPool : occurrences(out, r) = added[r]
           /\ Len(out) = sorter.totalRecords
           /\ \A i \in 1..(Len(out) - 1) : inOrder(out[i], out[i + 1])
           /\ \A i \in 1..(Len(dir) - 1) :
                 bytesCompare(dir[i].startKey, dir[i + 1].startKey) <= 0

\* C4 witness: a finished merge of several chunks into several blocks, with a
\* key that occurs at two offsets added in descending offset order
C4_Witness ==
    /\ sorter.state = StateDone
    /\ Len(sorter.chunkFiles) >= 3
    /\ Len(bw.sparseIndex) >= 2
    /\ \E k \in KeyPool : Cardinality({r \in RecPool : r.key = k /\ added[r] = 1}) >= 2
    /\ \E i \in 1..(Len(sorter.chunkFiles) - 1) :
          sorter.chunkFiles[i][1].key = sorter.chunkFiles[i + 1][1].key
          /\ sorter.chunkFiles[i][1].offset > sorter.chunkFiles[i + 1][1].offset

\* C34: Finalize returns the number of distinct keys among the records added,
\* whatever their arrival order and their split into chunks, and with a filter
\* attached it has made one bloom insertion per distinct key; with no record
\* added it returns 0 and has made no insertion.
C34_FinalizeCountsDistinctKeys ==
    sorter.state = StateDone =>
        LET keys == {r.key : r \in {r \in RecPool : added[r] > 0}} IN
        /\ merge.result = Cardinality(keys)
        /\ merge.bloomAdds = (IF sorter.bloom THEN Cardinality(keys) ELSE 0)
        /\ merge.bloomKeys = (IF sorter.bloom THEN {TrimRight(k) : k \in keys} ELSE {})

\* C34 witness: a finished merge with a filter in which a key arrived in two
\* chunks, another key arrived in a chunk between them, and the count is
\* below the number of records
C34_Witness ==
    /\ sorter.state = StateDone
    /\ sorter.bloom
    /\ merge.result >= 2
    /\ merge.result < sorter.totalRecords
    /\ \E i, j, l \in 1..Len(sorter.chunkFiles) :
          /\ i < j /\ j < l
          /\ sorter.chunkFiles[i][1].key = sorter.chunkFiles[l][1].key
          /\ sorter.chunkFiles[j][1].key # sorter.chunkFiles[i][1].key

\* the directory blocks an iterator for key may read: from its start block on,
\* those whose start key is not above the key
blocksUpTo(blocks, key) ==
    {b \in 1..Len(blocks) :
        /\ b - 1 >= findStartBlock(blocks, key)
        /\ bytesCompare(blocks[b].startKey, key) <= 0}

\* C31: an iterator made by Search(K) returns only records whose trimmed key is
\* K, reads no block whose start key is above K, and once Next has returned
\* false a later Next returns false again, returns no record and reads no block.
C31_IteratorYieldsOnlyTheKey ==
    [][iter'.open =>
          /\ \A i \in 1..Len(iter'.found) :
                TrimRight(iter'.found[i].key) = iter'.searchKey
          /\ iter'.blocksRead <= Cardinality(blocksUpTo(bw.sparseIndex, iter'.searchKey))
          /\ (iter.open /\ iter.done) =>
                (iter'.done /\ iter'.found = iter.found
                    /\ iter'.blocksRead = iter.blocksRead)]_vars

\* C31 witness: a search that has ended before a block with a greater start
\* key, after it skipped a record with a smaller key and returned one with its
\* own
C31_Witness ==
    /\ searchFinished
    /\ Len(iter.found) >= 1
    /\ iter.currentBlock < iter.totalBlocks
    /\ compareRecordKey(
          ReadBlock(bw.file, bw.sparseIndex[findStartBlock(bw.sparseIndex, iter.searchKey) + 1])[1].key,
          iter.searchKey) < 0

----------------------------------------------------------------------------
(* The parallel CSV scanner (SIMDParser, and the older parser.Scanner)         *)
(* Byte positions are 0-based as in the source: data[i] is at(data, i).        *)

at(data, i) == data[i + 1]

\* data[from:to]
slice(data, from, to) == SubSeq(data, from + 1, to)

\* bytes.IndexByte(data[pos:], b): the distance from pos to the first b, or -1
IndexByte(data, pos, b) ==
    LET hits == {i \in pos..(Len(data) - 1) : at(data, i) = b} IN
    IF hits = {} THEN -1
    ELSE (CHOOSE i \in hits : \A j \in hits : i <= j) - pos

\* the "for" of findSafeRecordBoundary: accept the first newline after which
\* the stretch up to the next newline holds an even number of quotes
RECURSIVE safeBoundaryLoop(_, _)
safeBoundaryLoop(data, currentNL) ==
    IF currentNL + 1 >= Len(data) THEN Len(data)
    ELSE LET nextNL == IndexByte(data, currentNL + 1, NewLine) IN
         IF nextNL = -1 THEN currentNL + 1
         ELSE LET nextPos == currentNL + 1 + nextNL
                  quotes == Cardinality({i \in (currentNL + 1)..(nextPos - 1) :
                                            at(data, i) = Quote})
              IN IF quotes % 2 = 0 THEN currentNL + 1
                 ELSE safeBoundaryLoop(data, nextPos)

\* findSafeRecordBoundary(data, hint)
findSafeRecordBoundary(data, hint) ==
    IF hint >= Len(data) THEN Len(data)
    ELSE LET nextNL == IndexByte(data, hint, NewLine) IN
         IF nextNL = -1 THEN Len(data)
         ELSE safeBoundaryLoop(data, hint + nextNL)

\* Scan: the first byte after the header line
startIdxOf(data) == IndexByte(data, 0, NewLine) + 1

\* boundaries that treat the last one like the others: taken from its hint
boundariesFromHints(data, workers) ==
    LET startIdx == startIdxOf(data)
        dataSize == Len(data)
        chunkSize == (dataSize - startIdx) \div workers
    IN [i \in 0..workers |->
          IF i = 0 THEN startIdx
          ELSE LET hint == startIdx + (i * chunkSize) IN
               IF hint < dataSize THEN findSafeRecordBoundary(data, hint)
               ELSE dataSize]

\* Scan: boundaries[0..workers]
scanBoundaries(data, workers) ==
    LET startIdx == startIdxOf(data)
        dataSize == Len(data)
        chunkSize == (dataSize - startIdx) \div workers
    IN [i \in 0..workers |->
          IF i = 0 THEN startIdx
          ELSE IF i = workers THEN dataSize
          ELSE LET hint == startIdx + (i * chunkSize) IN
               IF hint < dataSize THEN findSafeRecordBoundary(data, hint)
               ELSE dataSize]

\* the bitmap walk of countChunkLines: quotes toggle inQuote, newlines outside
\* quotes count
RECURSIVE countLoop(_, _, _, _)
countLoop(chunkData, i, inQuote, count) ==
    IF i >= Len(chunkData) THEN [count |-> count, inQuote |-> inQuote]
    ELSE IF at(chunkData, i) = Quote THEN countLoop(chunkData, i + 1, ~inQuote, count)
    ELSE IF at(chunkData, i) = NewLine /\ ~inQuote
         THEN countLoop(chunkData, i + 1, inQuote, count + 1)
    ELSE countLoop(chunkData, i + 1, inQuote, count)

\* SIMDParser.countChunkLines(start, end)
countChunkLines(data, start, end) ==
    IF start >= Len(data) \/ start >= end THEN 0
    ELSE LET chunkData == slice(data, start, end)
             chunkLen == Len(chunkData)
             r == countLoop(chunkData, 0, FALSE, 0)
         IN IF at(chunkData, chunkLen - 1) # NewLine /\ ~r.inQuote
            THEN r.count + 1 ELSE r.count

\* start lines that give every chunk one line
startLinePerChunk(data, boundaries, i) == 2 + i

\* Scan: startLines[i], the prefix sums of the chunk line counts from line 2
RECURSIVE startLineOf(_, _, _)
startLineOf(data, boundaries, i) ==
    IF i = 0 THEN 2
    ELSE startLineOf(data, boundaries, i - 1)
         + (IF boundaries[i - 1] >= boundaries[i] THEN 0
            ELSE countChunkLines(data, boundaries[i - 1], boundaries[i]))

\* a field without the quotes around it
unquote(valBytes) ==
    IF Len(valBytes) >= 2 /\ valBytes[1] = Quote /\ valBytes[Len(valBytes)] = Quote
    THEN SubSeq(valBytes, 2, Len(valBytes) - 1)
    ELSE valBytes

\* the largest column any index definition names, -1 without one
maxColOf(indexDefs) ==
    LET cols == UNION {Range(indexDefs[i]) : i \in 1..Len(indexDefs)} IN
    IF cols = {} THEN -1 ELSE CHOOSE c \in cols : \A d \in cols : d <= c

\* the field loop of parseLineSimd: cut the line at separators outside quotes
RECURSIVE fieldLoop(_, _, _, _, _, _, _)
fieldLoop(line, maxCol, i, colIdx, fieldStart, inQuote, vals) ==
    IF ~(i < Len(line) /\ colIdx <= maxCol)
    THEN [vals |-> vals, colIdx |-> colIdx, fieldStart |-> fieldStart]
    ELSE IF at(line, i) = Quote
         THEN fieldLoop(line, maxCol, i + 1, colIdx, fieldStart, ~inQuote, vals)
    ELSE IF at(line, i) = Comma /\ ~inQuote
         THEN fieldLoop(line, maxCol, i + 1, colIdx + 1, i + 1, inQuote,
                        [vals EXCEPT ![colIdx + 1] = unquote(slice(line, fieldStart, i))])
    ELSE fieldLoop(line, maxCol, i + 1, colIdx, fieldStart, inQuote, vals)

\* currentRowValues after the field loop and the last field; a nil value is <<>>
rowValues(line, maxCol) ==
    LET r == fieldLoop(line, maxCol, 0, 0, 0, FALSE, [k \in 1..(maxCol + 1) |-> <<>>]) IN
    IF r.colIdx <= maxCol /\ r.fieldStart <= Len(line)
    THEN [r.vals EXCEPT ![r.colIdx + 1] = unquote(slice(line, r.fieldStart, Len(line)))]
    ELSE r.vals

\* the values of a composite key, each in quotes, separated by commas
RECURSIVE joinQuoted(_, _, _)
joinQuoted(vals, indices, j) ==
    IF j > Len(indices) THEN <<>>
    ELSE (IF j > 1 THEN <<Comma>> ELSE <<>>)
         \o <<Quote>>
         \o (IF indices[j] < Len(vals) THEN vals[indices[j] + 1] ELSE <<>>)
         \o <<Quote>>
         \o joinQuoted(vals, indices, j + 1)

\* keys[i] of parseLineSimd: the value of a single column, or ["v1","v2"] in
\* the column order of the index definition
keyOf(vals, indices) ==
    IF Len(indices) = 1
    THEN IF indices[1] < Len(vals) THEN vals[indices[1] + 1] ELSE <<>>
    ELSE <<LeftBracket>> \o joinQuoted(vals, indices, 1) \o <<RightBracket>>

\* parseLineSimd: the keys handed to the handler for one line
parseLineSimd(line, indexDefs) ==
    LET vals == rowValues(line, maxColOf(indexDefs)) IN
    [i \in 1..Len(indexDefs) |-> keyOf(vals, indexDefs[i])]

\* handler(workerID, keys, offset, lineNum); parser.Scanner passes line 0
handlerCall(line, offset, lineNum, indexDefs, impl) ==
    [keys |-> parseLineSimd(line, indexDefs), offset |-> offset,
     line |-> IF impl = "SIMDParser" THEN lineNum ELSE 0]

\* a line without its trailing '\r'
stripCR(lineBytes) ==
    IF Len(lineBytes) > 0 /\ lineBytes[Len(lineBytes)] = CarriageReturn
    THEN SubSeq(lineBytes, 1, Len(lineBytes) - 1)
    ELSE lineBytes

\* a row that is handed over without being counted
chunkRowUncounted(st, lineBytes, offset, indexDefs, impl) ==
    IF Len(lineBytes) > 0
    THEN [st EXCEPT !.out = @ \cup {handlerCall(lineBytes, offset, st.currentLine,
                                                indexDefs, impl)},
                    !.calls = Append(@, handlerCall(lineBytes, offset, st.currentLine,
                                                    indexDefs, impl)),
                    !.currentLine = @ + 1]
    ELSE st

\* a row whose handler call is made ahead of the calls of the rows before it
chunkRowAhead(st, lineBytes, offset, indexDefs, impl) ==
    IF Len(lineBytes) > 0
    THEN [st EXCEPT !.out = @ \cup {handlerCall(lineBytes, offset, st.currentLine,
                                                indexDefs, impl)},
                    !.calls = <<handlerCall(lineBytes, offset, st.currentLine,
                                            indexDefs, impl)>> \o @,
                    !.rowsScanned = @ + 1,
                    !.currentLine = @ + 1]
    ELSE st

\* one row of processChunk: parse and hand over a non-empty line, count it;
\* out is the set of the handler calls made so far, calls their order
chunkRow(st, lineBytes, offset, indexDefs, impl) ==
    IF Len(lineBytes) > 0
    THEN [st EXCEPT !.out = @ \cup {handlerCall(lineBytes, offset, st.currentLine,
                                                indexDefs, impl)},
                    !.calls = Append(@, handlerCall(lineBytes, offset, st.currentLine,
                                                    indexDefs, impl)),
                    !.rowsScanned = @ + 1,
                    !.currentLine = @ + 1]
    ELSE st

\* the bitmap walk of processChunk over the quotes and newlines of the chunk
RECURSIVE chunkLoop(_, _, _, _, _, _)
chunkLoop(chunkData, start, indexDefs, impl, bytePos, st) ==
    IF bytePos >= Len(chunkData) THEN st
    ELSE IF at(chunkData, bytePos) = Quote
         THEN chunkLoop(chunkData, start, indexDefs, impl, bytePos + 1,
                        [st EXCEPT !.inQuote = ~@])
    ELSE IF at(chunkData, bytePos) = NewLine /\ ~st.inQuote
         THEN LET lineBytes == stripCR(slice(chunkData, st.lineStart, bytePos))
                  st1 == chunkRow(st, lineBytes, start + st.lineStart, indexDefs, impl)
              IN chunkLoop(chunkData, start, indexDefs, impl, bytePos + 1,
                           [st1 EXCEPT !.lineStart = bytePos + 1])
    ELSE chunkLoop(chunkData, start, indexDefs, impl, bytePos + 1, st)

NoRows == [out |-> {}, rowsScanned |-> 0, calls |-> <<>>]

\* processChunk(start, end, workerID, startLine, indexDefs, handler): the
\* handler calls it makes and the rows it counts
processChunk(data, start, end0, startLine, indexDefs, impl) ==
    LET end == Min(end0, Len(data)) IN
    IF start >= Len(data) \/ start >= end THEN NoRows
    ELSE LET chunkData == slice(data, start, end)
             chunkLen == Len(chunkData)
             st == chunkLoop(chunkData, start, indexDefs, impl, 0,
                             [lineStart |-> 0, inQuote |-> FALSE,
                              currentLine |-> startLine, out |-> {},
                              rowsScanned |-> 0, calls |-> <<>>])
             st1 == IF st.lineStart < chunkLen /\ ~st.inQuote
                    THEN chunkRow(st, stripCR(slice(chunkData, st.lineStart, chunkLen)),
                                  start + st.lineStart, indexDefs, impl)
                    ELSE st
         IN [out |-> st1.out, rowsScanned |-> st1.rowsScanned, calls |-> st1.calls]

----------------------------------------------------------------------------
(* Specification SpecScan: one CSV file scanned twice by the same parser,      *)
(* each time with some worker count; the goroutines of a scan run in any order *)

\* the header line "h\n"
HeaderLine == <<104, NewLine>>

ScanAlphabet == {97, Quote, NewLine}

Bodies == UNION {[1..n -> ScanAlphabet] : n \in 0..MaxBody}

\* one single-column index on column 0
ScanIndexDefs == << <<0>> >>

InitScan ==
    /\ csv \in {HeaderLine \o body : body \in Bodies}
    /\ scan \in {[NoScan EXCEPT !.impl = impl, !.round = 1] :
                    impl \in {"SIMDParser", "Scanner"}}
    /\ sorter = NewSorter(1, FALSE)
    /\ added = NoBag
    /\ merge = NoMerge
    /\ bw = NoWriter
    /\ iter = NoIter
    /\ store = NoStore
    /\ query = NoQuery
    /\ build = NoBuild

\* SetWorkers(workers) and Scan up to the start of the goroutines: boundaries,
\* and for SIMDParser the pre-pass and the start lines
ScanStart(workers) ==
    /\ scan.impl # "none"
    /\ scan.phase = "idle"
    /\ LET startIdx == startIdxOf(csv)
           b == scanBoundaries(csv, workers)
       IN IF startIdx <= 0 \/ startIdx >= Len(csv)
          THEN scan' = [scan EXCEPT !.phase = "running", !.workers = workers,
                                    !.boundaries = <<>>, !.startLines = <<>>,
                                    !.todo = {}, !.emitted = {}]
          ELSE scan' = [scan EXCEPT
                  !.phase = "running",
                  !.workers = workers,
                  !.boundaries = b,
                  !.startLines = [i \in 0..(workers - 1) |->
                                     IF scan.impl = "SIMDParser"
                                     THEN startLineOf(csv, b, i) ELSE 0],
                  !.todo = {i \in 0..(workers - 1) : b[i] < b[i + 1]},
                  !.emitted = {}]
    /\ UNCHANGED <<csv, idxVars, queryVars, build>>

\* the goroutine of worker workerID: processChunk on its chunk
WorkerRun(workerID) ==
    /\ scan.phase = "running"
    /\ workerID \in scan.todo
    /\ scan' = [scan EXCEPT
           !.todo = @ \ {workerID},
           !.emitted = @ \cup processChunk(csv, scan.boundaries[workerID],
                                           scan.boundaries[workerID + 1],
                                           scan.startLines[workerID],
                                           ScanIndexDefs, scan.impl).out,
           !.rowsScanned = @ + processChunk(csv, scan.boundaries[workerID],
                                            scan.boundaries[workerID + 1],
                                            scan.startLines[workerID],
                                            ScanIndexDefs, scan.impl).rowsScanned]
    /\ UNCHANGED <<csv, idxVars, queryVars, build>>

\* wg.Wait() returns: the scan is over; after the first scan keep what it
\* delivered and get ready for the second
ScanReturn ==
    /\ scan.phase = "running"
    /\ scan.todo = {}
    /\ scan' = IF scan.round = 1
               THEN [scan EXCEPT !.phase = "idle", !.round = 2,
                                 !.first = scan.emitted,
                                 !.firstWorkers = scan.workers]
               ELSE [scan EXCEPT !.phase = "done"]
    /\ UNCHANGED <<csv, idxVars, queryVars, build>>

NextScan ==
    \/ \E workers \in 1..MaxWorkers : ScanStart(workers)
    \/ \E workerID \in 0..(MaxWorkers - 1) : WorkerRun(workerID)
    \/ ScanReturn

SpecScan == InitScan /\ [][NextScan]_vars

----------------------------------------------------------------------------
(* Properties of SpecScan *)

\* every quote of the body is closed
balancedQuotes(data) == Cardinality({i \in 1..Len(data) : data[i] = Quote}) % 2 = 0

\* the 1-based physical line of the file on which byte offset lies
physicalLine(data, offset) ==
    1 + Cardinality({i \in 0..(offset - 1) : at(data, i) = NewLine})

\* C5: two scans of the same well-formed file with worker counts W1 and W2
\* hand the same set of (keys, offset, line) to the handler.
C5_SameSetForAnyWorkers ==
    (scan.phase = "done" /\ balancedQuotes(csv)) => scan.emitted = scan.first

\* C6: every handler call of a finished scan of a well-formed file carries the
\* number of the physical line on which its row starts (header = line 1), so
\* a row after a record with k quoted newlines is numbered k+1 higher.
C6_LineIsPhysicalLine ==
    (scan.phase = "done" /\ balancedQuotes(csv)) =>
        \A call \in scan.emitted : call.line = physicalLine(csv, call.offset)

\* no '\n' of the file lies between an opening quote and the next quote
noQuotedNewline(data) ==
    \A i \in 1..Len(data) :
        data[i] = NewLine =>
            Cardinality({j \in 1..(i - 1) : data[j] = Quote}) % 2 = 0

\* the number of '\n' bytes of the file
newlineCount(data) == Cardinality({i \in 1..Len(data) : data[i] = NewLine})

\* the first Scan of the parser has returned and the second has not begun
firstScanOver == scan.round = 2 /\ scan.phase = "idle"

\* the empty lines of the file: a '\n' that directly follows a '\n'
emptyLines(data) ==
    Cardinality({i \in 2..Len(data) : data[i] = NewLine /\ data[i - 1] = NewLine})

quotesBefore(data, pos) ==
    Cardinality({i \in startIdxOf(data)..(pos - 1) : at(data, i) = Quote})

\* pos is the end of the data or directly follows a '\n' outside quoted fields
recordBoundary(data, pos) ==
    \/ pos = Len(data)
    \/ /\ pos > 0 /\ pos < Len(data)
       /\ at(data, pos - 1) = NewLine
       /\ quotesBefore(data, pos) % 2 = 0

\* C29: every interior chunk boundary that Scan takes from
\* findSafeRecordBoundary is the end of the data or a position directly after
\* a '\n' that lies outside every quoted field, for every hint and every body,
\* so that every offset handed to the handler starts a data row.
C29_BoundaryOutsideQuotedFields ==
    (scan.impl = "SIMDParser" /\ scan.phase \in {"running", "done"})
        => /\ \A i \in DOMAIN scan.boundaries :
                 (0 < i /\ i < scan.workers) => recordBoundary(csv, scan.boundaries[i])
           /\ \A call \in scan.emitted : recordBoundary(csv, call.offset)

----------------------------------------------------------------------------
(* Specification SpecOrder: one Scan of SIMDParser seen handler call by        *)
(* handler call.  pending[w] holds the calls the goroutine of worker w has     *)
(* still to make, in the order processChunk makes them; log is the order in    *)
(* which the calls of all workers have taken place.                            *)

InitOrder ==
    /\ csv \in {HeaderLine \o body : body \in Bodies}
    /\ scan = [NoScan EXCEPT !.impl = "SIMDParser", !.round = 1]
    /\ sorter = NewSorter(1, FALSE)
    /\ added = NoBag
    /\ merge = NoMerge
    /\ bw = NoWriter
    /\ iter = NoIter
    /\ store = NoStore
    /\ query = NoQuery
    /\ build = NoBuild

\* the calls processChunk makes for worker w, in their order
callsOf(data, b, startLines, w) ==
    IF b[w] < b[w + 1]
    THEN processChunk(data, b[w], b[w + 1], startLines[w], ScanIndexDefs, "SIMDParser").calls
    ELSE <<>>

\* Scan up to "go func(chunkStart, chunkEnd, workerID, startLine)"
OrderStart(workers) ==
    /\ scan.phase = "idle"
    /\ LET startIdx == startIdxOf(csv)
           b == scanBoundaries(csv, workers)
           lines == [i \in 0..(workers - 1) |-> startLineOf(csv, b, i)]
       IN IF startIdx <= 0 \/ startIdx >= Len(csv)
          THEN scan' = [scan EXCEPT !.phase = "done", !.workers = workers]
          ELSE scan' = [scan EXCEPT
                  !.phase = "running",
                  !.workers = workers,
                  !.boundaries = b,
                  !.startLines = lines,
                  !.pending = [w \in 0..(workers - 1) |-> callsOf(csv, b, lines, w)]]
    /\ UNCHANGED <<csv, idxVars, queryVars, build>>

\* the next handler(workerID, keys, offset, line) of worker workerID
OrderCall(workerID) ==
    /\ scan.phase = "running"
    /\ workerID \in DOMAIN scan.pending
    /\ Len(scan.pending[workerID]) > 0
    /\ scan' = [scan EXCEPT
           !.pending[workerID] = Tail(@),
           !.log = Append(@, [worker |-> workerID,
                              offset |-> Head(scan.pending[workerID]).offset,
                              line |-> Head(scan.pending[workerID]).line])]
    /\ UNCHANGED <<csv, idxVars, queryVars, build>>

\* wg.Wait() returns
OrderReturn ==
    /\ scan.phase = "running"
    /\ \A w \in DOMAIN scan.pending : Len(scan.pending[w]) = 0
    /\ scan' = [scan EXCEPT !.phase = "done"]
    /\ UNCHANGED <<csv, idxVars, queryVars, build>>

NextOrder ==
    \/ \E workers \in 1..MaxWorkers : OrderStart(workers)
    \/ \E workerID \in 0..(MaxWorkers - 1) : OrderCall(workerID)
    \/ OrderReturn

SpecOrder == InitOrder /\ [][NextOrder]_vars

\* C32: within one scan the handler calls made with the same worker id take
\* place in strictly increasing byte-offset order and strictly increasing
\* line-number order, whatever the interleaving of the workers.
C32_OrderedWithinAWorker ==
    \A i, j \in 1..Len(scan.log) :
        (i < j /\ scan.log[i].worker = scan.log[j].worker) =>
            /\ scan.log[i].offset < scan.log[j].offset
            /\ scan.log[i].line < scan.log[j].line

\* C32 witness: a finished scan in which a worker made two calls and a call of
\* the second worker took place before a call of the first for an earlier row
C32_Witness ==
    /\ scan.phase = "done"
    /\ \E i, j \in 1..Len(scan.log) :
          i < j /\ scan.log[i].worker = scan.log[j].worker
    /\ \E i, j \in 1..Len(scan.log) :
          /\ i < j /\ scan.log[i].worker # scan.log[j].worker
          /\ scan.log[i].offset > scan.log[j].offset

\* C38: over one scan the line numbers handed to the handler are at least 2,
\* pairwise distinct and strictly increasing with the byte offset across all
\* workers, and the start line of a chunk is above every line number handed
\* out for the chunks before it.
C38_LinesIncreaseWithOffsets ==
    \A i \in 1..Len(scan.log) :
        /\ scan.log[i].line >= 2
        /\ \A j \in 1..Len(scan.log) :
              /\ i # j => scan.log[i].line # scan.log[j].line
              /\ scan.log[i].offset < scan.log[j].offset
                    => scan.log[i].line < scan.log[j].line
        /\ \A w \in (scan.log[i].worker + 1)..(scan.workers - 1) :
              scan.startLines[w] > scan.log[i].line

\* C38 witness: a finished scan in which two workers made calls, the first
\* worker for two rows, and the second chunk starts more than one line after
\* the last row of the first
C38_Witness ==
    /\ scan.phase = "done"
    /\ scan.workers = 2
    /\ Cardinality({i \in 1..Len(scan.log) : scan.log[i].worker = 0}) >= 2
    /\ \E i \in 1..Len(scan.log) : scan.log[i].worker = 1
    /\ \A i \in 1..Len(scan.log) : scan.startLines[1] > scan.log[i].line + 1
                                       \/ scan.log[i].worker = 1

----------------------------------------------------------------------------
(* Conditions (Condition, Evaluate, ExtractIndexConditions) *)

\* strings.ToLower on ASCII
ToLower(str) == [i \in 1..Len(str) |-> IF str[i] \in 65..90 THEN str[i] + 32 ELSE str[i]]

\* bytes.TrimSpace / strings.TrimSpace
RECURSIVE TrimSpace(_)
TrimSpace(str) ==
    IF Len(str) > 0 /\ str[Len(str)] \in {9, 10, 11, 12, 13, 32}
    THEN TrimSpace(SubSeq(str, 1, Len(str) - 1))
    ELSE IF Len(str) > 0 /\ str[1] \in {9, 10, 11, 12, 13, 32}
    THEN TrimSpace(Tail(str))
    ELSE str

\* strings.Split(str, sep)
RECURSIVE Split(_, _)
Split(str, sep) ==
    LET k == IndexByte(str, 0, sep) IN
    IF k = -1 THEN <<str>>
    ELSE <<slice(str, 0, k)>> \o Split(slice(str, k + 1, Len(str)), sep)

\* strings.Join(parts, "_")
RECURSIVE Join(_)
Join(parts) ==
    IF Len(parts) = 0 THEN <<>>
    ELSE IF Len(parts) = 1 THEN parts[1]
    ELSE parts[1] \o <<95>> \o Join(Tail(parts))

\* strings.Contains(str, sub)
Contains(str, sub) ==
    \E i \in 0..(Len(str) - Len(sub)) : slice(str, i, i + Len(sub)) = sub

\* a comparison, AND/OR node, or the nil condition
Leaf(op, column, value) == [op |-> op, column |-> column, value |-> value, children |-> <<>>]

Node(op, children) == [op |-> op, column |-> <<>>, value |-> <<>>, children |-> children]

NoCondition == Node("nil", <<>>)

\* the text "NULL"
NullText == <<78, 85, 76, 76>>

\* Condition.Evaluate(row) / Evaluate(c, row); row maps column names to values
RECURSIVE Evaluate(_, _)
Evaluate(c, row) ==
    IF c.op = "AND" THEN \A i \in 1..Len(c.children) : Evaluate(c.children[i], row)
    ELSE IF c.op = "OR" THEN \E i \in 1..Len(c.children) : Evaluate(c.children[i], row)
    ELSE LET exists == c.column \in DOMAIN row
             val == IF exists THEN row[c.column] ELSE <<>>
             cmp == bytesCompare(val, c.value)
         IN IF c.op = "IS NULL" THEN ~exists \/ val = <<>> \/ val = NullText
            ELSE IF c.op = "IS NOT NULL" THEN exists /\ val # <<>> /\ val # NullText
            ELSE IF ~exists THEN FALSE
            ELSE IF c.op = "=" THEN val = c.value
            ELSE IF c.op = "!=" THEN val # c.value
            ELSE IF c.op = ">" THEN cmp > 0
            ELSE IF c.op = "<" THEN cmp < 0
            ELSE IF c.op = ">=" THEN cmp >= 0
            ELSE IF c.op = "<=" THEN cmp <= 0
            ELSE IF c.op = "LIKE" THEN Contains(ToLower(val), ToLower(c.value))
            ELSE FALSE

\* ExtractIndexConditions: column -> value of the "=" children of an AND root
\* (a later child replaces an earlier one on the same column), or of a "=" root
ExtractIndexConditions(c) ==
    IF c.op = "AND"
    THEN LET eqs == {i \in 1..Len(c.children) : c.children[i].op = "="} IN
         [col \in {c.children[i].column : i \in eqs} |->
             c.children[CHOOSE i \in eqs :
                           /\ c.children[i].column = col
                           /\ \A j \in eqs : c.children[j].column = col => j <= i].value]
    ELSE IF c.op = "=" THEN [col \in {c.column} |-> c.value]
    ELSE [col \in {} |-> <<>>]

----------------------------------------------------------------------------
(* The planner (findBestIndex) *)

\* a descending order of strings
RECURSIVE sortStringsDescending(_)
sortStringsDescending(strs) ==
    IF strs = {} THEN <<>>
    ELSE LET m == CHOOSE x \in strs : \A y \in strs : bytesCompare(x, y) >= 0
         IN <<m>> \o sortStringsDescending(strs \ {m})

\* sort.Strings(cols)
RECURSIVE sortStrings(_)
sortStrings(strs) ==
    IF strs = {} THEN <<>>
    ELSE LET m == CHOOSE x \in strs : \A y \in strs : bytesCompare(x, y) <= 0
         IN <<m>> \o sortStrings(strs \ {m})

\* the strings.Builder loop of findBestIndex: "v1","v2" for the columns
RECURSIVE searchKeyValues(_, _, _)
searchKeyValues(conds, currentCols, k) ==
    IF k > Len(currentCols) THEN <<>>
    ELSE (IF k > 1 THEN <<Comma>> ELSE <<>>)
         \o <<Quote>> \o conds[currentCols[k]] \o <<Quote>>
         \o searchKeyValues(conds, currentCols, k + 1)

\* searchKey of findBestIndex for the first i sorted columns
searchKeyOf(conds, currentCols) ==
    IF Len(currentCols) = 1 THEN conds[currentCols[1]]
    ELSE <<LeftBracket>> \o searchKeyValues(conds, currentCols, 1) \o <<RightBracket>>

\* os.Stat(indexPath) succeeds: an index file of that name is in the directory
indexExists(indexes, indexName) == \E ix \in indexes : ix.name = indexName

NoPlan ==
    [found |-> FALSE, strategy |-> "none", index |-> <<>>, coveredColumns |-> <<>>,
     searchKey |-> <<>>, hasSearchKey |-> FALSE]

\* findBestIndex: the longest prefix of the sorted equality columns that names
\* an index, else the index named after group_by, else "no index found"
findBestIndex(indexes, where, groupBy) ==
    LET conds == IF where.op = "nil" THEN [col \in {} |-> <<>>]
                 ELSE ExtractIndexConditions(where)
        cols == sortStrings(DOMAIN conds)
        hits == {i \in 1..Len(cols) : indexExists(indexes, Join(SubSeq(cols, 1, i)))}
        groupName == [i \in 1..Len(groupBy) |-> IF groupBy[i] = Comma THEN 95 ELSE groupBy[i]]
    IN IF hits # {}
       THEN LET i == CHOOSE i \in hits : \A j \in hits : j <= i
                currentCols == SubSeq(cols, 1, i)
            IN [found |-> TRUE, strategy |-> "Index Scan", index |-> Join(currentCols),
                coveredColumns |-> currentCols,
                searchKey |-> searchKeyOf(conds, currentCols), hasSearchKey |-> TRUE]
       ELSE IF groupBy # <<>> /\ indexExists(indexes, groupName)
       THEN [NoPlan EXCEPT !.found = TRUE, !.strategy = "GroupBy Index Scan",
                           !.index = groupName]
       ELSE NoPlan

\* the covered check of Run / ExecuteWithCondition: every column of the
\* extracted equality conditions is one of the plan's covered columns
allCovered(where, plan) ==
    /\ where.op # "nil"
    /\ Len(plan.coveredColumns) > 0
    /\ \A k \in DOMAIN ExtractIndexConditions(where) :
          \E i \in 1..Len(plan.coveredColumns) :
              ToLower(plan.coveredColumns[i]) = ToLower(k)

----------------------------------------------------------------------------
(* Index build (IndexManager.Run, Indexer.Run) *)

\* readHeaders / getHeaderMap: the lower-cased header names in column order
headerNames(data) ==
    LET idx == IndexByte(data, 0, NewLine)
        line == stripCR(slice(data, 0, IF idx = -1 THEN Len(data) ELSE idx))
        parts == Split(line, Comma)
    IN [i \in 1..Len(parts) |-> ToLower(unquote(TrimSpace(parts[i])))]

\* headerMap[key]: the 0-based column of that name (the last one), or -1
headerIndex(headers, key) ==
    LET hits == {i \in 1..Len(headers) : headers[i] = key} IN
    IF hits = {} THEN -1 ELSE (CHOOSE i \in hits : \A j \in hits : j <= i) - 1

\* GetColumnIndex(name), headers[strings.ToLower(name)]
columnIndex(headers, name) == headerIndex(headers, ToLower(TrimSpace(name)))

\* the scan handler of Run: one IndexRecord per call, the key copied into the
\* fixed-size array; here in the order of the row offsets
RECURSIVE recordsOf(_)
recordsOf(calls) ==
    IF calls = {} THEN <<>>
    ELSE LET c == CHOOSE c \in calls : \A d \in calls : c.offset <= d.offset IN
         <<[key |-> copyKey(c.keys[1]), offset |-> c.offset, line |-> c.line]>>
         \o recordsOf(calls \ {c})

\* the chunk of worker w in a Scan with that many workers: its handler calls
\* and the rows it counts
workerChunk(data, workers, indexDefs, impl, w) ==
    LET startIdx == startIdxOf(data)
        b == scanBoundaries(data, workers)
    IN IF startIdx <= 0 \/ startIdx >= Len(data) THEN NoRows
       ELSE IF b[w] >= b[w + 1] THEN NoRows
       ELSE processChunk(data, b[w], b[w + 1],
                         IF impl = "SIMDParser" THEN startLineOf(data, b, w) ELSE 0,
                         indexDefs, impl)

\* GetStats after Scan: the rows counted by all workers
RECURSIVE rowsScannedBy(_, _, _, _, _)
rowsScannedBy(data, workers, indexDefs, impl, w) ==
    IF w >= workers THEN 0
    ELSE workerChunk(data, workers, indexDefs, impl, w).rowsScanned
         + rowsScannedBy(data, workers, indexDefs, impl, w + 1)

\* a build that forgets what is left in the worker buffers when Scan returns
droppedBuffers(recs) == <<>>

\* the loop after Scan: what a worker buffer still holds is sent as a batch
leftoverBatch(recs) == SubSeq(recs, Len(recs) - (Len(recs) % BatchSize) + 1, Len(recs))

\* the batches a worker sends from inside the handler: every BatchSize records
fullBatches(recs) == SubSeq(recs, 1, Len(recs) - (Len(recs) % BatchSize))

\* the records that arrive on the channel of one index: the full batches of the
\* workers, then the leftovers in worker order
RECURSIVE channelRecords(_, _, _, _, _, _)
channelRecords(data, workers, indexDefs, impl, w, full) ==
    IF w >= workers
    THEN IF full THEN channelRecords(data, workers, indexDefs, impl, 0, FALSE) ELSE <<>>
    ELSE LET recs == recordsOf(workerChunk(data, workers, indexDefs, impl, w).out) IN
         (IF full THEN fullBatches(recs) ELSE leftoverBatch(recs))
         \o channelRecords(data, workers, indexDefs, impl, w + 1, full)

\* runSorterNode: sorter.Add for every record of every batch
RECURSIVE addAll(_, _)
addAll(s, recs) ==
    IF Len(recs) = 0 THEN s ELSE addAll(SorterAdd(s, Head(recs)), Tail(recs))

\* kWayMerge from its loop to writer.Close(): the writer it leaves
RECURSIVE kWayMerge(_, _, _)
kWayMerge(s, m, w) ==
    IF Len(m.heap) = 0 THEN BlockWriterClose(w)
    ELSE kWayMerge(s, mergeLoop(s, m), WriteRecord(w, m.heap[1].record))

\* Sorter.Finalize as a whole: the writer and output file it leaves
SorterFinalize(s) ==
    LET s1 == flushChunk(s) IN
    IF Len(s1.chunkFiles) = 0 THEN [NoWriter EXCEPT !.file.created = TRUE]
    ELSE kWayMerge(s1, mergeStart(s1), NewBlockWriter)

\* the bloom filter kWayMerge leaves: one Add per distinct key of the merge
RECURSIVE kWayMergeBloom(_, _)
kWayMergeBloom(s, m) ==
    IF Len(m.heap) = 0 THEN m.bloom ELSE kWayMergeBloom(s, mergeLoop(s, m))

\* the bloom filter once kWayMerge has added every key it wrote
mergedBloom(s1) ==
    IF Len(s1.chunkFiles) = 0 THEN NewBloomFilter ELSE kWayMergeBloom(s1, mergeStart(s1))

\* the files of one index: <csv>_<name>.cidx and, when a bloom rate is
\* configured, <csv>_<name>.cidx.bloom (else empty here); totalRows is the
\* TotalRows field of the metadata
indexFiles(name, w, bloom, withBloom, totalRows) ==
    [name |-> name, sparseIndex |-> w.sparseIndex, file |-> w.file,
     bloom |-> IF withBloom THEN Serialize(bloom) ELSE <<>>, totalRows |-> totalRows]

\* runSorterNode once the channel is closed: sorter.Finalize and the bloom file
finalizeSorter(name, s, withBloom, totalRows) ==
    indexFiles(name, SorterFinalize(s), mergedBloom(flushChunk(s)), withBloom, totalRows)

\* colIndices[i][j] = GetColumnIndex(col)
colIndicesOf(headers, columns) ==
    [j \in 1..Len(columns) |-> columnIndex(headers, columns[j])]

\* runSorterNode for one index definition: every batch of the channel is
\* added to a new sorter
runSorterNode(data, name, indexDefs, workers, impl, withBloom) ==
    finalizeSorter(name,
                   addAll(NewSorter(MaxChunkSize, withBloom),
                          channelRecords(data, workers, indexDefs, impl, 0, TRUE)),
                   withBloom, rowsScannedBy(data, workers, indexDefs, impl, 0))

\* Run for one column list
buildIndex(data, columns, workers, impl, withBloom) ==
    runSorterNode(data, ToLower(Join(columns)),
                  <<colIndicesOf(headerNames(data), columns)>>, workers, impl, withBloom)

----------------------------------------------------------------------------
(* Rows, overrides and aggregation shared by the query paths *)

\* extractCols(line, sep, maxCol, buf)
RECURSIVE extractColsLoop(_, _, _, _, _, _)
extractColsLoop(line, maxCol, i, start, inQuote, cols) ==
    IF i >= Len(line) THEN Append(cols, unquote(slice(line, start, Len(line))))
    ELSE LET q == IF at(line, i) = Quote THEN ~inQuote ELSE inQuote IN
         IF at(line, i) = Comma /\ ~q
         THEN LET cols1 == Append(cols, unquote(slice(line, start, i))) IN
              IF Len(cols1) > maxCol THEN cols1
              ELSE extractColsLoop(line, maxCol, i + 1, i + 1, q, cols1)
         ELSE extractColsLoop(line, maxCol, i + 1, start, q, cols)

extractCols(line, maxCol) == extractColsLoop(line, maxCol, 0, 0, FALSE, <<>>)

\* the columns of a line: extractCols in go/internal, parseCSVLine (a plain
\* split) in pkg
colsOf(tree, line, maxCol) ==
    IF tree = "go" THEN extractCols(line, maxCol) ELSE Split(line, Comma)

\* the row at rec.Offset: up to the next '\n', without a trailing '\r'
rowAt(data, offset) ==
    LET rowEnd == IndexByte(data, offset, NewLine) IN
    stripCR(slice(data, offset, IF rowEnd = -1 THEN Len(data) ELSE offset + rowEnd))

EmptyMap == [k \in {} |-> <<>>]

\* rowMap[name] = cols[headerMap[name]] for the columns the row has, over what
\* base holds (nothing after clear(rowMap), "" where the index path stores it,
\* the previous row where the map is never cleared)
rowMapOf(headers, cols, base) ==
    LET present == {headers[j] : j \in {i \in 1..Len(headers) : i <= Len(cols)}} IN
    [k \in (DOMAIN base) \cup present |->
        IF k \in present /\ headerIndex(headers, k) < Len(cols)
        THEN cols[headerIndex(headers, k) + 1]
        ELSE IF k \in DOMAIN base THEN base[k] ELSE <<>>]

\* a row lookup that takes the line before
GetRowOfPreviousLine(updates, lineNum) ==
    IF itoa(lineNum - 1) \in DOMAIN updates THEN updates[itoa(lineNum - 1)] ELSE EmptyMap

\* UpdateManager.GetRow(lineNum) / Overrides[rowId]
GetRow(updates, lineNum) ==
    IF itoa(lineNum) \in DOMAIN updates THEN updates[itoa(lineNum)] ELSE EmptyMap

\* "for col, val := range override": cols with the override values put in
applyOverride(headers, cols, override) ==
    [j \in 1..Len(cols) |->
        IF \E col \in DOMAIN override : headerIndex(headers, col) = j - 1
        THEN override[CHOOSE col \in DOMAIN override : headerIndex(headers, col) = j - 1]
        ELSE cols[j]]

\* strconv.ParseFloat with its error dropped, on the texts a cell can hold here:
\* a run of decimal digits is its value, anything else leaves val at 0
RECURSIVE decimalValue(_)
decimalValue(text) ==
    IF Len(text) = 0 THEN 0
    ELSE 10 * decimalValue(SubSeq(text, 1, Len(text) - 1)) + (text[Len(text)] - 48)

ParseFloat(text) ==
    IF Len(text) > 0 /\ \A i \in 1..Len(text) : text[i] \in 48..57
    THEN decimalValue(text) ELSE 0

AggFuncs == {"count", "sum", "min", "max", "avg", ""}

\* the switch of runAggregation / StreamAggregator.Add on results: n is what a
\* "count" adds (1 for a row, record_count for a block counted from the
\* directory), val the parsed cell of the aggregation column
aggregate(groups, aggFunc, groupVal, n, val) ==
    LET ok == groupVal \in DOMAIN groups
        curr == IF ok THEN groups[groupVal] ELSE 0
    IN IF aggFunc \notin AggFuncs THEN groups
       ELSE [g \in (DOMAIN groups) \cup {groupVal} |->
                IF g # groupVal THEN groups[g]
                ELSE IF aggFunc = "count" THEN curr + n
                ELSE IF aggFunc \in {"sum", "avg"} THEN curr + val
                ELSE IF aggFunc = "min" THEN (IF ~ok \/ val < curr THEN val ELSE curr)
                ELSE IF aggFunc = "max" THEN (IF ~ok \/ val > curr THEN val ELSE curr)
                ELSE 1]

\* the same switch on counts: only "avg" counts its observations
observe(counts, aggFunc, groupVal) ==
    IF aggFunc # "avg" THEN counts
    ELSE [g \in (DOMAIN counts) \cup {groupVal} |->
             IF g # groupVal THEN counts[g]
             ELSE IF groupVal \in DOMAIN counts THEN counts[g] + 1 ELSE 1]

\* StreamAggregator.Finalize / the tail of Aggregator.Run: for "avg" every
\* result whose count is positive is divided by it.  A quotient is kept as the
\* sum and the divisor applied to it: the value written for g is
\* results[g] / divisor[g], and results[g] where no divisor was applied
aggregatorDivisor(aggFunc, results, counts) ==
    IF aggFunc # "avg" THEN EmptyMap
    ELSE [g \in {k \in DOMAIN results : k \in DOMAIN counts /\ counts[k] > 0} |-> counts[g]]

----------------------------------------------------------------------------
(* Query execution (QueryEngine.Run in go/internal, Executor in pkg) *)

\* what a run leaves on the writer: the path taken, the offset,line records,
\* the printed count (-1 when none is printed), the group map, the error, and
\* how the plan was printed ("none", "json" for json.Encoder, "text" for
\* fmt.Fprintf("Plan: %v"))
NoOutput ==
    [strategy |-> "none", covered |-> FALSE, plan |-> NoPlan, rows |-> <<>>,
     count |-> -1, groups |-> EmptyMap, failed |-> FALSE, blocksRead |-> 0,
     planFormat |-> "none", divisor |-> EmptyMap, counts |-> EmptyMap]

\* the largest column index of the header map
maxHeaderCol(headers) == Len(headers) - 1

\* the tail shared by the row loops: skip by offset, count, print, stop at the
\* limit; st carries rows, count, skipped and limitReached
emitRow(req, st, offset, line) ==
    IF st.skipped < req.offset THEN [st EXCEPT !.skipped = @ + 1]
    ELSE [st EXCEPT !.count = @ + 1,
                    !.rows = IF req.countOnly THEN @
                             ELSE Append(@, [offset |-> offset, line |-> line]),
                    !.limitReached = req.limit > 0 /\ st.count + 1 >= req.limit]

StartState ==
    [rows |-> <<>>, count |-> 0, skipped |-> 0, limitReached |-> FALSE,
     rowMap |-> EmptyMap, groups |-> EmptyMap, counts |-> EmptyMap, blocksRead |-> 0]

\* StreamAggregator.Add(groupVal, val) on the aggregator kept in st
streamAdd(st, aggFunc, groupVal, val) ==
    [st EXCEPT !.groups = aggregate(@, aggFunc, groupVal, 1, val),
               !.counts = observe(@, aggFunc, groupVal)]

\* the read loop of runFullScan: one pass per physical line from byte pos on
RECURSIVE fullScanLoop(_, _, _, _, _, _, _)
fullScanLoop(tree, data, updates, req, pos, lineNum, st) ==
    IF pos >= Len(data) \/ st.limitReached THEN st
    ELSE LET headers == headerNames(data)
             nl == IndexByte(data, pos, NewLine)
             next == IF nl = -1 THEN Len(data) ELSE pos + nl + 1
             n == lineNum + 1
             trimmed == TrimSpace(slice(data, pos, next))
             maxCol == IF maxHeaderCol(headers) > 0 THEN maxHeaderCol(headers) ELSE 0
             cols == applyOverride(headers, colsOf(tree, trimmed, maxCol), GetRow(updates, n))
             row == rowMapOf(headers, cols, IF tree = "go" THEN EmptyMap ELSE st.rowMap)
             st1 == IF req.where.op = "nil" THEN st ELSE [st EXCEPT !.rowMap = row]
             groupIdx == columnIndex(headers, req.groupBy)
             aggIdx == IF req.aggCol # <<>> THEN columnIndex(headers, req.aggCol) ELSE -1
         IN IF req.where.op # "nil" /\ ~Evaluate(req.where, row)
            THEN fullScanLoop(tree, data, updates, req, next, n, st1)
            ELSE IF tree = "pkg" /\ req.groupBy # <<>>
            THEN fullScanLoop(tree, data, updates, req, next, n,
                     IF groupIdx >= 0 /\ groupIdx < Len(cols)
                     THEN streamAdd(st1, req.aggFunc, cols[groupIdx + 1],
                                    IF aggIdx >= 0 /\ aggIdx < Len(cols)
                                    THEN ParseFloat(cols[aggIdx + 1]) ELSE 0)
                     ELSE st1)
            ELSE fullScanLoop(tree, data, updates, req, next, n, emitRow(req, st1, pos, n))

\* aggregator.Finalize(writer): what the aggregator kept in st writes
finalized(out, aggFunc, st) ==
    [out EXCEPT !.groups = st.groups, !.counts = st.counts,
                !.divisor = aggregatorDivisor(aggFunc, st.groups, st.counts)]

\* the records printed by a row loop and, for count_only, its count
standardOutput(out, countOnly, st) ==
    [out EXCEPT !.rows = st.rows, !.count = IF countOnly THEN st.count ELSE -1]

\* runFullScan
runFullScan(tree, data, updates, req) ==
    IF IndexByte(data, 0, NewLine) = -1
    THEN [NoOutput EXCEPT !.strategy = "FullScan", !.failed = TRUE]
    ELSE IF tree = "pkg" /\ req.groupBy # <<>>
    THEN finalized([NoOutput EXCEPT !.strategy = "FullScan"], req.aggFunc,
                   fullScanLoop(tree, data, updates, req,
                                IndexByte(data, 0, NewLine) + 1, 1, StartState))
    ELSE standardOutput([NoOutput EXCEPT !.strategy = "FullScan"], req.countOnly,
                        fullScanLoop(tree, data, updates, req,
                                     IndexByte(data, 0, NewLine) + 1, 1, StartState))

\* filepath.Glob(<csv>_*.cidx)[0]: the index file first by name
firstIndex(indexes) ==
    CHOOSE ix \in indexes :
        \A iy \in indexes : bytesCompare(Append(ix.name, 46), Append(iy.name, 46)) <= 0

\* ApproximateCount, and the sum of tryCountFromIndex
RECURSIVE sumRecordCount(_)
sumRecordCount(blocks) ==
    IF Len(blocks) = 0 THEN 0 ELSE blocks[1].recordCount + sumRecordCount(Tail(blocks))

\* runCountAll: the block counts of the first index file if it opens, else the
\* newlines of the CSV file less the header
runCountAll(tree, data, indexes) ==
    LET newlines == Cardinality({i \in 1..Len(data) : data[i] = NewLine})
        lines == IF Len(data) > 0 /\ data[Len(data)] # NewLine THEN newlines + 1 ELSE newlines
        fromIndex == /\ indexes # {}
                     /\ readable(firstIndex(indexes).file)
                     /\ tree = "go" =>
                           \A i \in 1..Len(firstIndex(indexes).sparseIndex) :
                               firstIndex(indexes).sparseIndex[i].recordCount # 0
    IN [NoOutput EXCEPT !.strategy = "CountAll",
                        !.count = IF fromIndex THEN sumRecordCount(firstIndex(indexes).sparseIndex)
                                  ELSE IF lines > 0 THEN lines - 1 ELSE 0]

\* the row map the index path of QueryEngine evaluates: "" for a missing column
indexRowMap(data, offset, maxCol) ==
    LET headers == headerNames(data) IN
    rowMapOf(headers, extractCols(rowAt(data, offset), maxCol),
             [k \in Range(headers) |-> <<>>])

\* QueryEngine.runStandardOutput: the records of one block from the k-th on
RECURSIVE goRecords(_, _, _, _, _, _)
goRecords(data, plan, where, req, records, st) ==
    IF Len(records) = 0 \/ st.limitReached THEN st
    ELSE LET rec == Head(records)
             cmp == IF plan.hasSearchKey THEN compareRecordKey(rec.key, plan.searchKey) ELSE 0
         IN IF cmp < 0 THEN goRecords(data, plan, where, req, Tail(records), st)
            ELSE IF cmp > 0 THEN [st EXCEPT !.limitReached = TRUE]
            ELSE IF where.op # "nil"
                    /\ ~Evaluate(where, indexRowMap(data, rec.offset,
                                                    maxHeaderCol(headerNames(data))))
            THEN goRecords(data, plan, where, req, Tail(records), st)
            ELSE goRecords(data, plan, where, req, Tail(records),
                           emitRow(req, st, rec.offset, rec.line))

\* QueryEngine.runStandardOutput: the blocks from the i-th (0-based) on
RECURSIVE goBlocks(_, _, _, _, _, _, _)
goBlocks(data, ix, plan, where, req, i, st) ==
    IF i > Len(ix.sparseIndex) - 1 \/ st.limitReached THEN st
    ELSE LET blockMeta == ix.sparseIndex[i + 1] IN
         IF plan.hasSearchKey /\ bytesCompare(blockMeta.startKey, plan.searchKey) > 0 THEN st
         ELSE goBlocks(data, ix, plan, where, req, i + 1,
                       goRecords(data, plan, where, req, ReadBlock(ix.file, blockMeta),
                                 [st EXCEPT !.blocksRead = @ + 1]))

\* QueryEngine.runAggregation: aggC, 0 unless agg_col names a column
goAggCol(headers, req) ==
    IF req.aggCol # <<>> /\ req.aggCol # <<42>> THEN columnIndex(headers, req.aggCol) ELSE 0

\* QueryEngine.runAggregation: the records of one decoded block
RECURSIVE goAggRecords(_, _, _, _, _, _)
goAggRecords(data, plan, where, req, records, st) ==
    IF Len(records) = 0 \/ st.limitReached THEN st
    ELSE LET rec == Head(records)
             cmp == IF plan.hasSearchKey THEN compareRecordKey(rec.key, plan.searchKey) ELSE 0
             headers == headerNames(data)
             groupC == columnIndex(headers, req.groupBy)
             aggC == goAggCol(headers, req)
             maxCol == IF where.op # "nil" THEN maxHeaderCol(headers)
                       ELSE IF aggC > groupC THEN aggC ELSE groupC
             cols == extractCols(rowAt(data, rec.offset), maxCol)
             groupVal == IF groupC < Len(cols) THEN cols[groupC + 1] ELSE <<>>
             val == IF req.aggFunc # "count" /\ aggC < Len(cols)
                    THEN ParseFloat(cols[aggC + 1]) ELSE 0
         IN IF cmp < 0 THEN goAggRecords(data, plan, where, req, Tail(records), st)
            ELSE IF cmp > 0 THEN [st EXCEPT !.limitReached = TRUE]
            ELSE IF where.op # "nil"
                    /\ ~Evaluate(where, indexRowMap(data, rec.offset, maxCol))
            THEN goAggRecords(data, plan, where, req, Tail(records), st)
            ELSE goAggRecords(data, plan, where, req, Tail(records),
                              streamAdd(st, req.aggFunc, groupVal, val))

\* QueryEngine.runAggregation: the blocks from the i-th on; a block flagged
\* distinct is counted from its directory entry when grouping by the index
RECURSIVE goAggBlocks(_, _, _, _, _, _, _)
goAggBlocks(data, ix, plan, where, req, i, st) ==
    IF i > Len(ix.sparseIndex) - 1 \/ st.limitReached THEN st
    ELSE LET blockMeta == ix.sparseIndex[i + 1]
             isGroupingByIndex == ToLower(plan.index) = ToLower(req.groupBy)
             canUseMetadata == req.aggFunc \in {"count", ""}
         IN IF plan.hasSearchKey /\ bytesCompare(blockMeta.startKey, plan.searchKey) > 0
            THEN st
            ELSE IF isGroupingByIndex /\ blockMeta.isDistinct /\ canUseMetadata
            THEN goAggBlocks(data, ix, plan, where, req, i + 1,
                     [st EXCEPT !.groups = aggregate(@, req.aggFunc, blockMeta.startKey,
                                                     blockMeta.recordCount, 0)])
            ELSE goAggBlocks(data, ix, plan, where, req, i + 1,
                     goAggRecords(data, plan, where, req, ReadBlock(ix.file, blockMeta),
                                  [st EXCEPT !.blocksRead = @ + 1]))

\* json.NewEncoder(q.Writer).Encode(results) at the end of runAggregation
encoded(out, st) ==
    [out EXCEPT !.groups = st.groups, !.counts = st.counts, !.blocksRead = st.blocksRead]

\* what runStandardOutput of go/internal has written after its block loop
blocksOutput(out, countOnly, st) ==
    [standardOutput(out, countOnly, st) EXCEPT !.blocksRead = st.blocksRead]

\* Run from os.Open(indexPath) on, in go/internal
goIndexOutput(data, ix, plan, where, req, out, startBlockIdx) ==
       IF ~readable(ix.file) THEN [out EXCEPT !.failed = TRUE]
       ELSE IF /\ plan.hasSearchKey
               /\ Len(ix.bloom) >= 3 * BloomFieldBytes
               /\ ~MightContain(DeserializeBloom(ix.bloom), plan.searchKey)
       THEN [out EXCEPT !.count = IF req.countOnly THEN 0 ELSE -1]
       ELSE IF startBlockIdx = -1
       THEN [out EXCEPT !.count = IF req.countOnly THEN 0 ELSE -1]
       ELSE IF req.groupBy # <<>>
       THEN IF \/ columnIndex(headerNames(data), req.groupBy) = -1
               \/ goAggCol(headerNames(data), req) = -1
            THEN [out EXCEPT !.failed = TRUE]
            ELSE encoded(out, goAggBlocks(data, ix, plan, where, req, startBlockIdx,
                                          StartState))
       ELSE blocksOutput(out, req.countOnly,
                         goBlocks(data, ix, plan, where, req, startBlockIdx, StartState))

\* QueryEngine.Run once findBestIndex has chosen an index
goIndexRun(data, ix, plan, where, req) ==
    goIndexOutput(data, ix, plan, where, req,
                  [NoOutput EXCEPT !.strategy = plan.strategy, !.plan = plan],
                  IF plan.hasSearchKey
                  THEN findStartBlock(ix.sparseIndex, plan.searchKey) ELSE 0)

\* "for iter.Next()": the iterator run to its end
RECURSIVE drain(_, _)
drain(ix, it) ==
    LET it1 == diskIteratorNext(ix.file, ix.sparseIndex, it) IN
    IF it1.done THEN it1 ELSE drain(ix, it1)

\* Executor.runStandardOutput over the records the iterator returns; the
\* condition is not evaluated on this path
RECURSIVE pkgRecords(_, _, _, _)
pkgRecords(plan, req, records, st) ==
    IF Len(records) = 0 \/ st.limitReached THEN st
    ELSE LET rec == Head(records) IN
         IF plan.hasSearchKey /\ bytesCompare(TrimRight(rec.key), plan.searchKey) > 0
         THEN st
         ELSE pkgRecords(plan, req, Tail(records), emitRow(req, st, rec.offset, rec.line))

\* Executor.runAggregation over the records the iterator returns
RECURSIVE pkgAggRecords(_, _, _, _)
pkgAggRecords(data, req, records, st) ==
    IF Len(records) = 0 THEN st
    ELSE LET rec == Head(records)
             groupIdx == columnIndex(headerNames(data), req.groupBy)
             aggIdx == IF req.aggCol # <<>> /\ req.aggFunc # "count"
                       THEN columnIndex(headerNames(data), req.aggCol) ELSE -1
             cols == Split(rowAt(data, rec.offset), Comma)
         IN pkgAggRecords(data, req, Tail(records),
                IF rec.offset < Len(data) /\ groupIdx < Len(cols)
                THEN streamAdd(st, req.aggFunc, cols[groupIdx + 1],
                               IF aggIdx >= 0 /\ aggIdx < Len(cols)
                               THEN ParseFloat(cols[aggIdx + 1]) ELSE 0)
                ELSE st)

\* ExecuteWithCondition from OpenDiskIndex on, in pkg
pkgIndexOutput(data, ix, plan, req, end) ==
    LET out == [NoOutput EXCEPT !.strategy = plan.strategy, !.plan = plan,
                                !.blocksRead = IF readable(ix.file) THEN end.blocksRead ELSE 0]
    IN IF ~readable(ix.file) THEN [out EXCEPT !.failed = TRUE]
       ELSE IF req.groupBy # <<>>
       THEN IF columnIndex(headerNames(data), req.groupBy) = -1
            THEN [out EXCEPT !.failed = TRUE]
            ELSE finalized(out, req.aggFunc,
                           pkgAggRecords(data, req, end.found, StartState))
       ELSE standardOutput(out, req.countOnly,
                           pkgRecords(plan, req, end.found, StartState))

\* the iterator of DiskIndex.Search, or of Scan when the plan has no search key
pkgIterator(ix, plan, hasBloom) ==
    IF plan.hasSearchKey
    THEN DiskIndexSearch(ix.sparseIndex, plan.searchKey, hasBloom,
                         hasBloom => MightContain(DeserializeBloom(ix.bloom),
                                                  plan.searchKey))
    ELSE [NoIter EXCEPT !.open = TRUE, !.scanMode = TRUE,
                        !.totalBlocks = Len(ix.sparseIndex)]

\* ExecuteWithCondition once findBestIndex has chosen an index
pkgIndexRun(data, ix, plan, where, req) ==
    pkgIndexOutput(data, ix, plan, req,
                   drain(ix, pkgIterator(ix, plan, Len(ix.bloom) >= 3 * BloomFieldBytes)))

\* an engine that does not look at the override map
overridesIgnored(updates) == FALSE

\* the override map is loaded and not empty
overridesPresent(updates) == DOMAIN updates # {}

\* QueryEngine.Run(where) / Executor.ExecuteWithCondition(req, where, writer)
Run(tree, data, indexes, updates, req) ==
    LET bare == req.where.op = "nil" /\ req.groupBy = <<>>
        plan == findBestIndex(indexes, req.where, req.groupBy)
        covered == allCovered(req.where, plan)
        where == IF covered THEN NoCondition ELSE req.where
        ix == CHOOSE ix \in indexes : ix.name = plan.index
    IN IF tree = "go" /\ bare /\ ~req.countOnly
       THEN [NoOutput EXCEPT !.strategy = "error", !.failed = TRUE]
       ELSE IF req.countOnly /\ bare THEN runCountAll(tree, data, indexes)
       ELSE IF overridesPresent(updates) THEN runFullScan(tree, data, updates, req)
       ELSE IF ~plan.found THEN runFullScan(tree, data, updates, req)
       ELSE IF req.explain
       THEN [NoOutput EXCEPT !.strategy = plan.strategy, !.plan = plan, !.covered = covered,
                             !.planFormat = IF tree = "go" THEN "json" ELSE "text"]
       ELSE [(IF tree = "go" THEN goIndexRun(data, ix, plan, where, req)
              ELSE pkgIndexRun(data, ix, plan, where, req))
             EXCEPT !.covered = covered]

----------------------------------------------------------------------------
(* Specification SpecQuery: a CSV file, indexes built on it by one of the two  *)
(* binaries, an override map, and one request run by the matching engine.      *)
(* Names and values are scaled to single bytes: columns i(d), n(ame), d(ept);  *)
(* values E(ng), S(ales), O(ps); names A(lice), B(ob), C(arol), D(ave).        *)

ColName == <<110>>

ColDept == <<100>>

Eng == <<69>>

Sales == <<83>>

Ops == <<79>>

Carol == <<67>>

\* a department one byte longer than the record key
LongDept == [i \in 1..(KeySize + 1) |-> 69]

\* the CSV file with header i,n,d and row k = k,<k-th name>,<depts[k]>
RECURSIVE renderRows(_, _)
renderRows(depts, k) ==
    IF k > Len(depts) THEN <<>>
    ELSE <<48 + k, Comma, 64 + k, Comma>> \o depts[k] \o <<NewLine>>
         \o renderRows(depts, k + 1)

renderCsv(depts) == <<105, Comma, 110, Comma, 100, NewLine>> \o renderRows(depts, 1)

\* scenario S1: Alice/Eng, Bob/Sales, Carol/Eng, Dave/Eng
S1 == renderCsv(<<Eng, Sales, Eng, Eng>>)

CsvPool ==
    {S1} \cup {renderCsv(depts) :
                  depts \in UNION {[1..n -> {Eng, Sales, LongDept}] : n \in 1..MaxRows}}

\* scenario S4: {"rows":{"3":{"dept":"Ops"}}}
S4 == [line \in {<<51>>} |-> [col \in {ColDept} |-> Ops]]

UpdatesPool == {EmptyMap, S4, [line \in {<<50>>} |-> [col \in {ColDept} |-> Eng]]}

\* the index definitions ["dept"] and [["dept","name"]]
IndexDefPool == {<<ColDept>>, <<ColDept, ColName>>}

DeptIs(v) == Node("AND", <<Leaf("=", ColDept, v)>>)

\* where = {dept: Eng, name: Carol}
DeptAndName == Node("AND", <<Leaf("=", ColDept, Eng), Leaf("=", ColName, Carol)>>)

WherePool ==
    {NoCondition, DeptIs(Eng), DeptIs(Sales), DeptIs(LongDept), Leaf("=", ColDept, Eng),
     DeptAndName,
     Node("AND", <<Leaf("=", ColDept, Eng), Leaf(">", ColName, <<66>>)>>),
     Node("AND", <<Leaf("=", ColDept, Eng),
                   Node("OR", <<Leaf("=", ColName, <<65>>), Leaf("=", ColName, Carol)>>)>>)}

Request(where, groupBy, aggFunc, countOnly) ==
    [where |-> where, groupBy |-> groupBy, aggFunc |-> aggFunc, countOnly |-> countOnly,
     limit |-> 0, offset |-> 0, explain |-> FALSE, aggCol |-> <<>>]

RequestPool ==
    {Request(w, <<>>, "", c) : w \in WherePool, c \in BOOLEAN}
    \cup {Request(w, ColDept, a, c) :
             w \in {NoCondition, DeptIs(Eng)}, a \in {"count", ""}, c \in BOOLEAN}
    \cup {Request(Node("AND", <<Leaf("=", ColDept, Eng), Leaf(">", ColName, <<66>>)>>),
                  ColDept, "count", FALSE)}

\* the parser of each binary: cmd/csvquery uses SIMDParser, go/main.go Scanner
parserOf(tree) == IF tree = "pkg" THEN "SIMDParser" ELSE "Scanner"

InitQuery ==
    /\ csv \in CsvPool
    /\ store \in {[tree |-> t, indexes |-> {}, updates |-> u,
                      updatesFile |-> IF u = EmptyMap THEN "absent" ELSE "valid"] :
                     t \in {"pkg", "go"}, u \in UpdatesPool}
    /\ query = NoQuery
    /\ scan = NoScan
    /\ sorter = NewSorter(1, FALSE)
    /\ added = NoBag
    /\ merge = NoMerge
    /\ bw = NoWriter
    /\ iter = NoIter
    /\ build = NoBuild

\* the index command: IndexManager.Run / Indexer.Run for one column list
IndexRun(columns, workers, withBloom) ==
    /\ store.tree # "none"
    /\ ~query.done
    /\ ~indexExists(store.indexes, ToLower(Join(columns)))
    /\ store' = [store EXCEPT !.indexes =
                    @ \cup {buildIndex(csv, columns, workers, parserOf(store.tree),
                                       withBloom)}]
    /\ UNCHANGED <<query, csv, scan, idxVars, build>>

\* LoadUpdates: <csv>_updates.json is absent, empty, valid JSON holding rows,
\* or not valid JSON (what it holds is then dropped with the error)
LoadUpdates(file, rows) ==
    IF file \in {"absent", "empty"} THEN [err |-> FALSE, overrides |-> EmptyMap]
    ELSE IF file = "valid" THEN [err |-> FALSE, overrides |-> rows]
    ELSE [err |-> TRUE, overrides |-> EmptyMap]

\* the Updates of the engine: NewQueryEngine keeps them "if err == nil",
\* handleQuery hands LoadUpdates' result to NewExecutor without looking at err
engineUpdates(file, rows) == LoadUpdates(file, rows).overrides

\* ParseCondition: no condition for an absent or empty where, an error only
\* for a root without operator; any other operator string is taken as it is
ParseCondition(where) ==
    IF where.op = "nil" THEN [err |-> FALSE, where |-> NoCondition]
    ELSE IF where.op = "" THEN [err |-> TRUE, where |-> NoCondition]
    ELSE [err |-> FALSE, where |-> where]

\* the query command: ParseCondition, LoadUpdates, then Run /
\* ExecuteWithCondition for one request
QueryRun(req) ==
    /\ store.tree # "none"
    /\ ~query.done
    /\ query' = [done |-> TRUE, req |-> req,
                 out |-> IF ParseCondition(req.where).err
                         THEN [NoOutput EXCEPT !.strategy = "error", !.failed = TRUE]
                         ELSE Run(store.tree, csv, store.indexes,
                                  engineUpdates(store.updatesFile, store.updates),
                                  [req EXCEPT !.where = ParseCondition(req.where).where])]
    /\ UNCHANGED <<store, csv, scan, idxVars, build>>

NextQuery ==
    \/ \E columns \in IndexDefPool, workers \in 1..MaxWorkers, withBloom \in BOOLEAN :
          IndexRun(columns, workers, withBloom)
    \/ \E req \in RequestPool : QueryRun(req)

SpecQuery == InitQuery /\ [][NextQuery]_vars

----------------------------------------------------------------------------
(* Properties of SpecQuery *)

\* the data rows of a generated CSV file (no quotes, no empty lines): offset,
\* 1-based line with the header as line 1, and column values
RECURSIVE dataRows(_, _, _)
dataRows(data, pos, line) ==
    IF pos >= Len(data) THEN {}
    ELSE LET nl == IndexByte(data, pos, NewLine)
             end == IF nl = -1 THEN Len(data) ELSE pos + nl
         IN {[offset |-> pos, line |-> line, cols |-> Split(slice(data, pos, end), Comma)]}
            \cup dataRows(data, end + 1, line + 1)

csvRows == dataRows(csv, startIdxOf(csv), 2)

positionsOf(rows) == {[offset |-> r.offset, line |-> r.line] : r \in rows}

noOverrides == DOMAIN store.updates = {}

deptIndexBuilt == \E ix \in store.indexes : ix.name = ColDept

compositeIndexBuilt == \E ix \in store.indexes : ix.name = <<100, 95, 110>>

\* C2: with a single-column index on dept and no overrides, the query dept = v
\* emits exactly one offset,line record per data row whose dept is v, with that
\* row's offset and line, for v of any length; count_only prints their number.
C2_EqualityQueryIsExact ==
    (/\ query.done
     /\ noOverrides
     /\ deptIndexBuilt
     /\ query.req.groupBy = <<>>
     /\ \E v \in {Eng, Sales, LongDept} : query.req.where \in {DeptIs(v), Leaf("=", ColDept, v)})
    =>
    LET v == ExtractIndexConditions(query.req.where)[ColDept]
        matching == {r \in csvRows : r.cols[3] = v}
    IN /\ ~query.out.failed
       /\ query.req.countOnly => query.out.count = Cardinality(matching)
       /\ ~query.req.countOnly =>
             /\ Len(query.out.rows) = Cardinality(matching)
             /\ Range(query.out.rows) = positionsOf(matching)

\* C3: when the planner judged the condition covered and skipped the
\* re-filter, re-applying the full condition to the rows returned removes
\* none of them.
C3_CoveredEqualsRefiltered ==
    (/\ query.done
     /\ query.out.covered
     /\ query.req.groupBy = <<>>
     /\ ~query.req.countOnly)
    =>
    \A i \in 1..Len(query.out.rows) :
        \E r \in csvRows :
            /\ r.offset = query.out.rows[i].offset
            /\ Evaluate(query.req.where,
                        [k \in Range(headerNames(csv)) |->
                            r.cols[headerIndex(headerNames(csv), k) + 1]])

\* C7 as stated: with a non-empty override map the strategy is FullScan for
\* every request shape.
C7_OverridesAlwaysFullScan ==
    (query.done /\ ~noOverrides) => query.out.strategy = "FullScan"

\* C7, amended: with a non-empty override map a request that has a condition
\* or a group_by runs as FullScan whatever indexes exist; a bare count_only
\* request runs as CountAll; a request with none of the three is a FullScan in
\* pkg and an error in go/internal.
C7_OverridesFullScanUnlessBare ==
    (query.done /\ ~noOverrides) =>
        LET bare == query.req.where = NoCondition /\ query.req.groupBy = <<>> IN
        /\ ~bare => query.out.strategy = "FullScan"
        /\ (bare /\ query.req.countOnly) => query.out.strategy = "CountAll"
        /\ (bare /\ ~query.req.countOnly) =>
              query.out.strategy = (IF store.tree = "go" THEN "error" ELSE "FullScan")

\* C7 witness: overrides loaded, the dept index built, a dept = Eng request
\* answered by a full scan
C7_Witness ==
    /\ query.done
    /\ ~noOverrides
    /\ deptIndexBuilt
    /\ query.req.where = DeptIs(Eng)
    /\ query.out.strategy = "FullScan"

\* the row of a data row after the override stored under its own line number
overriddenRow(r) ==
    LET headers == headerNames(csv)
        lineKey == <<48 + r.line>>
    IN [k \in Range(headers) |->
           IF lineKey \in DOMAIN store.updates /\ k \in DOMAIN store.updates[lineKey]
           THEN store.updates[lineKey][k]
           ELSE r.cols[headerIndex(headers, k) + 1]]

\* full scan answers: rows whose overridden row satisfies the condition
fullScanAnswer(expected) ==
    /\ ~query.out.failed
    /\ query.req.countOnly => query.out.count = Cardinality(expected)
    /\ ~query.req.countOnly => Range(query.out.rows) = positionsOf(expected)

S4Request == Request(DeptIs(Eng), <<>>, "", TRUE)

overrideAtLine ==
    (/\ query.done
     /\ query.out.strategy = "FullScan"
     /\ query.req.where # NoCondition
     /\ query.req.groupBy = <<>>)
    => fullScanAnswer({r \in csvRows : Evaluate(query.req.where, overriddenRow(r))})

\* C8 as stated: the override under line L is applied to the row of line L
\* before the condition is evaluated, and S1 with the override 3 -> dept Ops
\* and the condition dept = Eng counts 2.
C8_OverrideAtLineCountTwo ==
    /\ overrideAtLine
    /\ (query.done /\ csv = S1 /\ store.updates = S4 /\ query.req = S4Request)
          => query.out.count = 2

\* C8, amended: the override under line L is applied to the row of line L
\* before the condition is evaluated; in S1 line 3 is the Sales row, so the
\* override 3 -> dept Ops leaves the three Eng rows and the count is 3.
C8_OverrideAtLineCountThree ==
    /\ overrideAtLine
    /\ (query.done /\ csv = S1 /\ store.updates = S4 /\ query.req = S4Request)
          => query.out.count = 3

\* C8 witness: the S1 query with the override ran as a full scan and counted 3
C8_Witness ==
    /\ query.done
    /\ csv = S1
    /\ store.updates = S4
    /\ query.req = S4Request
    /\ query.out.strategy = "FullScan"
    /\ query.out.count = 3

compositeQuery ==
    /\ query.done
    /\ csv = S1
    /\ noOverrides
    /\ compositeIndexBuilt
    /\ query.req.where = DeptAndName
    /\ query.req.groupBy = <<>>

\* the composite query selected the dept_name index, searched it with key and
\* found the one row whose stored key is that key
compositeAnswer(key) ==
    /\ query.out.plan.found
    /\ query.out.plan.index = <<100, 95, 110>>
    /\ query.out.plan.searchKey = key
    /\ \E ix \in store.indexes :
          /\ ix.name = <<100, 95, 110>>
          /\ \E i \in 1..Len(decodeBlocks(ix.file.blocks)) :
                /\ TrimRight(decodeBlocks(ix.file.blocks)[i].key) = key
                /\ \E r \in csvRows :
                      /\ r.offset = decodeBlocks(ix.file.blocks)[i].offset
                      /\ r.cols[2] = Carol
                      /\ r.cols[3] = Eng
    /\ query.req.countOnly => query.out.count = 1
    /\ ~query.req.countOnly => Len(query.out.rows) = 1

\* C9 as stated: the planner selects the [dept, name] index, the search key is
\* ["Carol","Eng"], it equals the stored key of the matching row, count 1.
C9_SearchKeyCarolEng ==
    compositeQuery =>
        compositeAnswer(<<LeftBracket, Quote>> \o Carol \o <<Quote, Comma, Quote>>
                        \o Eng \o <<Quote, RightBracket>>)

\* C9, amended: the planner selects the [dept, name] index, the search key
\* lists the values in the order of the sorted column names, ["Eng","Carol"],
\* it equals the stored key of the matching row, and the count is 1.
C9_SearchKeyEngCarol ==
    compositeQuery =>
        compositeAnswer(<<LeftBracket, Quote>> \o Eng \o <<Quote, Comma, Quote>>
                        \o Carol \o <<Quote, RightBracket>>)

\* C9 witness: the composite query answered from the dept_name index
C9_Witness ==
    /\ compositeQuery
    /\ query.out.strategy = "Index Scan"
    /\ query.req.countOnly
    /\ query.out.count = 1

\* C10: a group_by dept query with agg_func count or empty, answered from the
\* dept index, maps each distinct dept value to its number of data rows, and
\* is_distinct holds of a block exactly when all its records share one key.
C10_GroupCountsFromIndex ==
    (/\ query.done
     /\ noOverrides
     /\ query.req.groupBy = ColDept
     /\ query.req.where = NoCondition
     /\ query.out.strategy = "GroupBy Index Scan")
    =>
    /\ ~query.out.failed
    /\ query.out.groups =
          [v \in {r.cols[3] : r \in csvRows} |->
              Cardinality({r \in csvRows : r.cols[3] = v})]
    /\ \A ix \in store.indexes :
          \A b \in 1..Len(ix.sparseIndex) :
              ix.sparseIndex[b].isDistinct <=>
                  (\A i, j \in 1..Len(ReadBlock(ix.file, ix.sparseIndex[b])) :
                      ReadBlock(ix.file, ix.sparseIndex[b])[i].key
                          = ReadBlock(ix.file, ix.sparseIndex[b])[j].key)

\* C11: a group_by query answered through an index path yields the same
\* aggregation object as the full scan of the same CSV for the same request.
C11_IndexAggregationEqualsFullScan ==
    (/\ query.done
     /\ query.req.groupBy # <<>>
     /\ query.out.strategy \in {"Index Scan", "GroupBy Index Scan"})
    =>
    /\ ~query.out.failed
    /\ query.out.groups = runFullScan(store.tree, csv, store.updates, query.req).groups

----------------------------------------------------------------------------
(* Properties of the bloom filter, under SpecIndex *)

\* C12: after a build with a bloom filter, the filter in memory and the filter
\* read back from its serialized form answer true for the trimmed key of every
\* record of the index and for every key Add was called on.
C12_BloomHasNoFalseNegatives ==
    (sorter.state = StateDone /\ sorter.bloom) =>
        LET loaded == DeserializeBloom(merge.bloomFile)
            keys == {TrimRight(decodeBlocks(bw.file.blocks)[i].key) :
                        i \in 1..Len(decodeBlocks(bw.file.blocks))}
        IN /\ loaded = merge.bloom
           /\ \A k \in keys \cup merge.bloomKeys :
                 MightContain(merge.bloom, k) /\ MightContain(loaded, k)

\* C12 witness: a finished build with a bloom filter, two distinct keys in the
\* index, and a key of the pool the filter reports absent
C12_Witness ==
    /\ sorter.state = StateDone
    /\ sorter.bloom
    /\ Cardinality(merge.bloomKeys) >= 2
    /\ Len(decodeBlocks(bw.file.blocks)) >= 2
    /\ \E k \in SearchKeys : ~MightContain(DeserializeBloom(merge.bloomFile), k)

----------------------------------------------------------------------------
(* Properties of the bloom filter, under SpecQuery *)

\* the query searched an index whose bloom file reports the search key absent
bloomReportsAbsent ==
    /\ query.done
    /\ query.out.strategy = "Index Scan"
    /\ query.out.plan.hasSearchKey
    /\ \E ix \in store.indexes :
          /\ ix.name = query.out.plan.index
          /\ readable(ix.file)
          /\ Len(ix.bloom) >= 3 * BloomFieldBytes
          /\ ~MightContain(DeserializeBloom(ix.bloom), query.out.plan.searchKey)

\* C13 as stated: when the bloom filter of the chosen index reports the search
\* key absent, the query reads no block of the index, emits no row position,
\* and with count_only prints 0.
C13_BloomAbsentPrintsZero ==
    bloomReportsAbsent =>
        /\ ~query.out.failed
        /\ query.out.blocksRead = 0
        /\ query.out.rows = <<>>
        /\ query.req.countOnly => query.out.count = 0

\* C13, amended: when the bloom filter reports the search key absent, the
\* query reads no block, emits no row position and no group, and with
\* count_only prints 0, except that the Executor of pkg prints the empty
\* aggregation object and no count when the request also has a group_by.
C13_BloomAbsentReadsNothing ==
    bloomReportsAbsent =>
        /\ ~query.out.failed
        /\ query.out.blocksRead = 0
        /\ query.out.rows = <<>>
        /\ query.out.groups = EmptyMap
        /\ query.req.countOnly =>
              query.out.count = (IF store.tree = "pkg" /\ query.req.groupBy # <<>>
                                 THEN -1 ELSE 0)

\* C13 witness: a count_only query whose key the bloom filter reports absent
\* although the directory search alone would have opened a block
C13_Witness ==
    /\ bloomReportsAbsent
    /\ query.req.countOnly
    /\ query.out.count = 0
    /\ \E ix \in store.indexes :
          /\ ix.name = query.out.plan.index
          /\ findStartBlock(ix.sparseIndex, query.out.plan.searchKey) # -1

----------------------------------------------------------------------------
(* Specification SpecCount: the index command and a count, equality or         *)
(* group_by query on files that may have no row at all, whose lines may be     *)
(* empty and whose last line may lack its '\n'.                                *)

\* the lines a file is made of: the rows 1,A,E and 2,B,S and the empty line
LinePool == {<<49, Comma, 65, Comma>> \o Eng, <<50, Comma, 66, Comma>> \o Sales, <<>>}

\* lines joined by '\n'
RECURSIVE joinLines(_)
joinLines(lines) ==
    IF Len(lines) = 0 THEN <<>>
    ELSE IF Len(lines) = 1 THEN lines[1]
    ELSE lines[1] \o <<NewLine>> \o joinLines(Tail(lines))

\* the header i,n,d followed by up to MaxRows lines, the last with or without
\* its '\n'
LinedCsvPool ==
    {renderCsv(<<>>) \o joinLines(lines) \o tail :
        lines \in UNION {[1..n -> LinePool] : n \in 0..MaxRows},
        tail \in {<<>>, <<NewLine>>}}

\* count_only without condition and group_by
CountAllRequest == Request(NoCondition, <<>>, "", TRUE)

\* the bare count, dept = Eng with and without count_only, and group_by dept
\* two requests outside the documented input: a condition with the operator
\* IN, and agg_func = sum without group_by; and dept = Eng with explain
LinedRequestPool ==
    {CountAllRequest,
     Request(DeptIs(Eng), <<>>, "", FALSE),
     Request(DeptIs(Eng), <<>>, "", TRUE),
     Request(NoCondition, ColDept, "count", FALSE),
     Request(Node("AND", <<Leaf("=", ColDept, Eng), Leaf("IN", ColName, <<65>>)>>),
             <<>>, "", FALSE),
     Request(DeptIs(Sales), <<>>, "sum", TRUE),
     [Request(DeptIs(Eng), <<>>, "", FALSE) EXCEPT !.explain = TRUE]}

\* {"rows":{"2":{"dept":"E"}}}
LineTwoIsEng == [line \in {<<50>>} |-> [col \in {ColDept} |-> Eng]]

\* <csv>_updates.json: absent, of length 0, valid, or cut short so that it is
\* not valid JSON
UpdatesFilePool ==
    {[kind |-> "absent", rows |-> EmptyMap], [kind |-> "empty", rows |-> EmptyMap],
     [kind |-> "valid", rows |-> LineTwoIsEng], [kind |-> "malformed", rows |-> LineTwoIsEng]}

InitCount ==
    /\ csv \in LinedCsvPool
    /\ store \in {[tree |-> t, indexes |-> {}, updates |-> f.rows, updatesFile |-> f.kind] :
                     t \in {"pkg", "go"}, f \in UpdatesFilePool}
    /\ query = NoQuery
    /\ scan = NoScan
    /\ sorter = NewSorter(1, FALSE)
    /\ added = NoBag
    /\ merge = NoMerge
    /\ bw = NoWriter
    /\ iter = NoIter
    /\ build = NoBuild

NextCount ==
    \/ \E columns \in IndexDefPool, workers \in 1..MaxWorkers, withBloom \in BOOLEAN :
          IndexRun(columns, workers, withBloom)
    \/ \E req \in LinedRequestPool : QueryRun(req)

SpecCount == InitCount /\ [][NextCount]_vars

----------------------------------------------------------------------------
(* Properties of SpecCount *)

\* a finished count_only request without condition and group_by, run with at
\* least one index in the index directory
countAllWithIndex ==
    /\ query.done
    /\ query.out.strategy = "CountAll"
    /\ store.indexes # {}

\* C15: for every CSV without quoted newlines and any index built from it,
\* CountAll answered from the index directory (the sum of record_count) equals
\* CountAll answered by counting the newlines of the CSV less the header.
C15_CountAllIndexEqualsNewlines ==
    (countAllWithIndex /\ noQuotedNewline(csv)) =>
        query.out.count = runCountAll(store.tree, csv, {}).count

\* C16: after a build, for every index the sum of record_count over its
\* directory equals the rows the scan counted (totalRows of the metadata),
\* whatever the number of workers and the batches, the records left in a
\* worker buffer when the scan ends included.
C16_RecordCountIsRowsScanned ==
    \A ix \in store.indexes : sumRecordCount(ix.sparseIndex) = ix.totalRows

\* C16 witness: an index over three rows, so that some worker buffer held a
\* batch that was not full when the scan ended
C16_Witness ==
    \E ix \in store.indexes :
        /\ ix.totalRows = 3
        /\ sumRecordCount(ix.sparseIndex) = 3
        /\ Len(ix.sparseIndex) >= 1

\* the file that consists of the header line only
HeaderOnlyCsv == renderCsv(<<>>)

\* C17: for a CSV that consists of the header line only the index build
\* succeeds with zero records, and every query against it afterwards (equality
\* on the indexed column, group_by on it, count_only) completes without error
\* and yields zero rows.
C17_HeaderOnlyQueriesYieldNothing ==
    (csv = HeaderOnlyCsv /\ deptIndexBuilt) =>
        /\ \A ix \in store.indexes : ix.totalRows = 0 /\ ix.sparseIndex = <<>>
        /\ query.done =>
              /\ ~query.out.failed
              /\ query.out.rows = <<>>
              /\ query.out.groups = EmptyMap
              /\ query.req.countOnly => query.out.count = 0

\* the planner chose an index whose file exists but does not open: it has no
\* directory footer (NewBlockReader / OpenDiskIndex return an error)
unopenableIndexChosen ==
    /\ query.done
    /\ query.out.plan.found
    /\ \E ix \in store.indexes : ix.name = query.out.plan.index /\ ~readable(ix.file)

\* C21: when the planner has selected an index file that exists but cannot be
\* opened or parsed, the query does not fail: it is executed as a full scan and
\* returns the full-scan result.
C21_UnopenableIndexFallsBackToFullScan ==
    unopenableIndexChosen =>
        LET fs == runFullScan(store.tree, csv,
                              engineUpdates(store.updatesFile, store.updates), query.req) IN
        /\ ~query.out.failed
        /\ query.out.rows = fs.rows
        /\ query.out.count = fs.count
        /\ query.out.groups = fs.groups

\* C22: a query whose overrides file is absent runs with no overrides; a query
\* whose overrides file exists but is not valid JSON fails with an error and
\* emits no result.
C22_MalformedOverridesFailTheQuery ==
    /\ (query.done /\ store.updatesFile = "absent") =>
           query.out = Run(store.tree, csv, store.indexes, EmptyMap, query.req)
    /\ (query.done /\ store.updatesFile = "malformed") =>
           /\ query.out.failed
           /\ query.out.rows = <<>>
           /\ query.out.count = -1
           /\ query.out.groups = EmptyMap

\* the operators a condition tree may hold
SupportedOps ==
    {"AND", "OR", "=", "!=", ">", "<", ">=", "<=", "LIKE", "IS NULL", "IS NOT NULL"}

\* some node of the tree has an operator outside the supported set
RECURSIVE hasUnsupportedOp(_)
hasUnsupportedOp(c) ==
    c.op # "nil" /\
        (c.op \notin SupportedOps
         \/ \E i \in 1..Len(c.children) : hasUnsupportedOp(c.children[i]))

\* C23: a request whose condition tree contains an operator outside the
\* supported set, or that sets agg_func without group_by, is rejected with an
\* error before any CSV or index file is opened, and no result is emitted.
C23_InvalidRequestIsRejected ==
    (/\ query.done
     /\ \/ hasUnsupportedOp(query.req.where)
        \/ (query.req.aggFunc # "" /\ query.req.groupBy = <<>>)) =>
        /\ query.out.failed
        /\ query.out.strategy = "error"
        /\ query.out.blocksRead = 0
        /\ query.out.rows = <<>>
        /\ query.out.count = -1
        /\ query.out.groups = EmptyMap

\* C24: whenever explain is set, the query emits the plan as structured JSON
\* and emits no row position, count or aggregation, for every planning
\* outcome: an index was chosen, no index was found, or overrides are present.
C24_ExplainEmitsOnlyThePlan ==
    (query.done /\ query.req.explain) =>
        /\ query.out.planFormat = "json"
        /\ query.out.rows = <<>>
        /\ query.out.count = -1
        /\ query.out.groups = EmptyMap

----------------------------------------------------------------------------
(* Specification SpecLimit: the dept index and requests with limit and offset, *)
(* with and without a condition the index does not cover, with and without     *)
(* an override map.                                                            *)

MaxLimit == 2

MaxOffset == 2

\* where = dept = Eng AND name > "B"
DeptEngNameAfterB == Node("AND", <<Leaf("=", ColDept, Eng), Leaf(">", ColName, <<66>>)>>)

LimitCsvPool ==
    {S1} \cup {renderCsv(depts) :
                  depts \in UNION {[1..n -> {Eng, Sales}] : n \in 1..MaxRows}}

LimitRequestPool ==
    {[Request(w, <<>>, "", c) EXCEPT !.limit = l, !.offset = o] :
        w \in {DeptIs(Eng), DeptEngNameAfterB}, c \in BOOLEAN,
        l \in 0..MaxLimit, o \in 0..MaxOffset}

InitLimit ==
    /\ csv \in LimitCsvPool
    /\ store \in {[tree |-> t, indexes |-> {}, updates |-> u,
                      updatesFile |-> IF u = EmptyMap THEN "absent" ELSE "valid"] :
                     t \in {"pkg", "go"}, u \in {EmptyMap, S4}}
    /\ query = NoQuery
    /\ scan = NoScan
    /\ sorter = NewSorter(1, FALSE)
    /\ added = NoBag
    /\ merge = NoMerge
    /\ bw = NoWriter
    /\ iter = NoIter
    /\ build = NoBuild

NextLimit ==
    \/ \E workers \in 1..MaxWorkers, withBloom \in BOOLEAN :
          IndexRun(<<ColDept>>, workers, withBloom)
    \/ \E req \in LimitRequestPool : QueryRun(req)

SpecLimit == InitLimit /\ [][NextLimit]_vars

\* the positions offset+1 .. offset+limit of a sequence, all positions after
\* the first offset ones when limit is 0
window(seq, offset, limit) ==
    LET last == IF limit = 0 \/ offset + limit > Len(seq) THEN Len(seq) ELSE offset + limit
    IN SubSeq(seq, offset + 1, last)

\* the rows the finished request emits when run without limit, offset and
\* count_only: the rows of its path in iteration order
unlimitedRows ==
    Run(store.tree, csv, store.indexes, engineUpdates(store.updatesFile, store.updates),
        [query.req EXCEPT !.limit = 0, !.offset = 0, !.countOnly = FALSE]).rows

\* the row that starts at an emitted offset satisfies the condition of the
\* request, overrides applied
passesCondition(pos) ==
    \E r \in csvRows :
        /\ r.offset = pos.offset
        /\ Evaluate(query.req.where, overriddenRow(r))

\* the output is the window offset+1 .. offset+limit of the rows the same
\* request emits without limit and offset
windowOfUnlimitedRows ==
    LET selected == window(unlimitedRows, query.req.offset, query.req.limit) IN
    /\ ~query.req.countOnly => query.out.rows = selected
    /\ query.req.countOnly => query.out.count = Len(selected)

\* C25: for positional and count_only output, on the indexed path and on the
\* full-scan path alike, limit and offset are applied to the sequence of rows
\* that passed the key match and the condition: the rows emitted are those at
\* positions offset+1 .. offset+limit of that sequence in iteration order,
\* limit = 0 emits every row after the first offset ones, rows rejected by the
\* condition consume neither offset nor limit, and the count printed with
\* count_only is the number of rows so selected.
C25_LimitOffsetAfterFiltering ==
    (query.done /\ ~query.out.failed) =>
        /\ \A i \in 1..Len(unlimitedRows) : passesCondition(unlimitedRows[i])
        /\ windowOfUnlimitedRows

----------------------------------------------------------------------------
(* Specification SpecAgg: the dept index and group_by requests, with agg_func  *)
(* avg or sum over the id or the name column and with agg_func count or empty  *)
(* under an equality on dept, run by either engine or handed to the batch      *)
(* Aggregator with every data row of the file.                                 *)

ColId == <<105>>

AggRequestPool ==
    {[Request(w, ColDept, a, FALSE) EXCEPT !.aggCol = c] :
        w \in {NoCondition, DeptIs(Eng)}, a \in {"avg", "sum"}, c \in {ColId, ColName}}
    \cup {Request(DeptIs(v), g, a, FALSE) :
              v \in {Eng, Ops, Sales}, g \in {ColDept, ColName}, a \in {"count", ""}}

\* the data rows of the file from byte pos on as header -> cell maps
RECURSIVE rowMaps(_, _)
rowMaps(data, pos) ==
    IF pos >= Len(data) THEN <<>>
    ELSE LET nl == IndexByte(data, pos, NewLine)
             end == IF nl = -1 THEN Len(data) ELSE pos + nl
         IN <<rowMapOf(headerNames(data), Split(slice(data, pos, end), Comma), EmptyMap)>>
            \o rowMaps(data, end + 1)

\* the row loop of Aggregator.Run
RECURSIVE batchLoop(_, _, _)
batchLoop(req, rows, st) ==
    IF Len(rows) = 0 THEN st
    ELSE LET row == Head(rows)
             groupKey == ToLower(req.groupBy)
             aggCol == ToLower(req.aggCol)
             groupVal == IF groupKey \in DOMAIN row THEN row[groupKey] ELSE <<>>
             val == IF req.aggFunc # "count" /\ aggCol # <<>> /\ aggCol \in DOMAIN row
                    THEN ParseFloat(row[aggCol]) ELSE 0
         IN batchLoop(req, Tail(rows), streamAdd(st, req.aggFunc, groupVal, val))

\* Aggregator.Run(rows, writer)
AggregatorRun(req, rows) ==
    LET st == batchLoop(req, rows, StartState) IN
    [NoOutput EXCEPT !.strategy = "Batch", !.groups = st.groups, !.counts = st.counts,
                     !.divisor = aggregatorDivisor(req.aggFunc, st.groups, st.counts)]

InitAgg ==
    /\ csv \in LimitCsvPool
    /\ store \in {[tree |-> t, indexes |-> {}, updates |-> EmptyMap, updatesFile |-> "absent"] :
                     t \in {"pkg", "go"}}
    /\ query = NoQuery
    /\ scan = NoScan
    /\ sorter = NewSorter(1, FALSE)
    /\ added = NoBag
    /\ merge = NoMerge
    /\ bw = NoWriter
    /\ iter = NoIter
    /\ build = NoBuild

\* the batch Aggregator of pkg handed every data row of the file
BatchRun(req) ==
    /\ store.tree = "pkg"
    /\ ~query.done
    /\ query' = [done |-> TRUE, req |-> req,
                 out |-> AggregatorRun(req, rowMaps(csv, startIdxOf(csv)))]
    /\ UNCHANGED <<store, csv, scan, idxVars, build>>

NextAgg ==
    \/ \E workers \in 1..MaxWorkers, withBloom \in BOOLEAN :
          IndexRun(<<ColDept>>, workers, withBloom)
    \/ \E req \in AggRequestPool : QueryRun(req)
    \/ \E req \in AggRequestPool : BatchRun(req)

SpecAgg == InitAgg /\ [][NextAgg]_vars

\* the value written for group g is num / den
writtenValue(out, g) ==
    [num |-> out.groups[g], den |-> IF g \in DOMAIN out.divisor THEN out.divisor[g] ELSE 1]

\* C28: for agg_func = avg, on every path that writes a grouped aggregation,
\* the value written for each group is the sum of the values observed for the
\* group divided by the number of its observations.
C28_AvgIsSumOverCount ==
    (query.done /\ ~query.out.failed /\ query.req.aggFunc = "avg")
        => \A g \in DOMAIN query.out.groups :
              /\ g \in DOMAIN query.out.counts
              /\ writtenValue(query.out, g).num * query.out.counts[g]
                    = query.out.groups[g] * writtenValue(query.out, g).den

\* the data rows whose dept cell, as an index key, is the search key of the plan
rowsWithSearchKey ==
    {r \in csvRows : TrimRight(copyKey(r.cols[3])) = query.out.plan.searchKey}

\* C30: in an aggregation that runs with an equality search key only rows
\* whose trimmed index key equals the search key contribute to a group, also
\* where a block flagged is_distinct is counted from the directory; when no
\* record holds the search key the output is the empty object.
C30_OnlySearchKeyRowsAreAggregated ==
    (/\ query.done /\ ~query.out.failed
     /\ query.req.groupBy # <<>>
     /\ query.req.aggFunc \in {"count", ""}
     /\ query.out.plan.found /\ query.out.plan.hasSearchKey)
    =>
    \A g \in DOMAIN query.out.groups :
        LET groupIdx == columnIndex(headerNames(csv), query.req.groupBy)
            contributing == {r \in rowsWithSearchKey : r.cols[groupIdx + 1] = g}
        IN /\ contributing # {}
           /\ query.req.aggFunc = "count"
                 => query.out.groups[g] <= Cardinality(contributing)

----------------------------------------------------------------------------
(* Properties of the build order, under SpecIndex *)

\* the records handed to the sorter, whatever their order of arrival
addedRecords == {r \in RecPool : added[r] > 0}

\* the records of a set by key bytes, then offset
RECURSIVE inKeyOffsetOrder(_)
inKeyOffsetOrder(recs) ==
    IF recs = {} THEN <<>>
    ELSE LET least == CHOOSE r \in recs : \A q \in recs : inOrder(r, q) IN
         <<least>> \o inKeyOffsetOrder(recs \ {least})

\* the writer after these records, one WriteRecord each, and Close
RECURSIVE writtenInOrder(_, _)
writtenInOrder(w, recs) ==
    IF Len(recs) = 0 THEN BlockWriterClose(w)
    ELSE writtenInOrder(WriteRecord(w, Head(recs)), Tail(recs))

\* C18: the index a build leaves is a function of the records of the CSV
\* alone: the same record sequence, block boundaries and directory entries for
\* every order in which the batches reach the sorter and every split of the
\* records into spill chunks.
C18_BuildIsDeterministic ==
    (sorter.state = StateDone /\ addedRecords # {}) =>
        LET w == writtenInOrder(NewBlockWriter, inKeyOffsetOrder(addedRecords)) IN
        /\ decodeBlocks(bw.file.blocks) = inKeyOffsetOrder(addedRecords)
        /\ bw.file = w.file
        /\ bw.sparseIndex = w.sparseIndex

\* C18 witness: a finished build of two blocks or more whose records reached
\* the sorter against their order and were spilled into two chunks or more
C18_Witness ==
    /\ sorter.state = StateDone
    /\ Len(sorter.chunkFiles) >= 2
    /\ Len(bw.sparseIndex) >= 2
    /\ ~inOrder(sorter.chunkFiles[1][1], sorter.chunkFiles[2][1])
    /\ \E r, q \in addedRecords : r # q /\ r.key = q.key

\* C20: no query that runs during a build can find an incomplete index at the
\* final path <csv>_<name>.cidx, a file without all its blocks and its
\* directory footer: whenever the output file of the sorter exists at that
\* path, NewBlockReader can open it.
C20_NoIncompleteIndexAtFinalPath ==
    bw.file.created => readable(bw.file)

----------------------------------------------------------------------------
(* Specification SpecBlock: one block writer handed any records, closed, and   *)
(* the file it wrote read back block by block through a block reader.  Here    *)
(* added is the sequence of records handed to WriteRecord and iter the reader: *)
(* the directory block it is at and the records it has returned so far.        *)

\* offset and line pairs at the ends and in the middle of the integer range
WidePairs == {<<MinInt, MaxInt>>, <<-1, 0>>, <<2, 3>>, <<MaxInt, MinInt>>}

WideRecPool ==
    {[key |-> copyKey(k), offset |-> p[1], line |-> p[2]] :
        k \in {<<97>>, <<98, 98>>}, p \in WidePairs}

InitBlock ==
    /\ bw = NewBlockWriter
    /\ added = <<>>
    /\ iter = NoIter
    /\ sorter = NewSorter(1, FALSE)
    /\ merge = NoMerge
    /\ csv = <<>>
    /\ scan = NoScan
    /\ store = NoStore
    /\ query = NoQuery
    /\ build = NoBuild

\* BlockWriter.WriteRecord(rec)
BlockWrite(rec) ==
    /\ ~bw.file.footer
    /\ Len(added) < MaxWritten
    /\ bw' = WriteRecord(bw, rec)
    /\ added' = Append(added, rec)
    /\ UNCHANGED <<sorter, merge, iter, scanVars, queryVars, build>>

\* BlockWriter.Close()
BlockClose ==
    /\ ~bw.file.footer
    /\ bw' = BlockWriterClose(bw)
    /\ UNCHANGED <<sorter, added, merge, iter, scanVars, queryVars, build>>

\* NewBlockReader on the closed file
BlockOpen ==
    /\ readable(bw.file)
    /\ ~iter.open
    /\ iter' = [NoIter EXCEPT !.open = TRUE,
                              !.totalBlocks = Len(bw.sparseIndex),
                              !.done = Len(bw.sparseIndex) = 0]
    /\ UNCHANGED <<sorter, added, merge, bw, scanVars, queryVars, build>>

\* BlockReader.ReadBlock(meta) for the next entry of the directory
BlockRead ==
    /\ iter.open
    /\ iter.currentBlock < iter.totalBlocks
    /\ iter' = [iter EXCEPT
           !.records = @ \o ReadBlock(bw.file, bw.sparseIndex[iter.currentBlock + 1]),
           !.currentBlock = @ + 1,
           !.done = iter.currentBlock + 1 = iter.totalBlocks]
    /\ UNCHANGED <<sorter, added, merge, bw, scanVars, queryVars, build>>

NextBlock ==
    \/ \E rec \in WideRecPool : BlockWrite(rec)
    \/ BlockClose
    \/ BlockOpen
    \/ BlockRead

SpecBlock == InitBlock /\ [][NextBlock]_vars

----------------------------------------------------------------------------
(* Properties of SpecBlock *)

\* C19: for every sequence of records passed to WriteRecord and followed by
\* Close, NewBlockReader and ReadBlock over every directory block in order
\* return the same records in the same order: the same key bytes and the same
\* offset and line, negative and extreme values included.
C19_BlockRoundTrip ==
    (iter.open /\ iter.done) => iter.records = added

\* C19 witness: three records in two blocks read back, among them a negative
\* offset, the least and the largest integer
C19_Witness ==
    /\ iter.open /\ iter.done
    /\ Len(added) = 3
    /\ iter.totalBlocks >= 2
    /\ \E i, j, k \in 1..Len(iter.records) :
          /\ iter.records[i].offset = -1
          /\ iter.records[j].offset = MinInt
          /\ iter.records[k].offset = MaxInt

----------------------------------------------------------------------------
(* Specification SpecBuild: the goroutines of one IndexManager.Run.  The key   *)
(* bytes play no part here: a batch is the number of records it holds, a       *)
(* channel the number of batches queued in it.  Every call that touches the    *)
(* file system succeeds or fails.                                              *)

\* indexes of one build (len(idx.colDefs))
NumIndexes == 2

\* batches a sorter channel buffers, scaled from 100
ChannelCap == 1

\* rows of the CSV file that fall to one scan worker
MaxBuildRows == 3

IndexIds == 1..NumIndexes

\* Run before its first MkdirAll of the temp directory
NewBuild(workers, rows) ==
    [pc |-> "mkdir", workers |-> workers, tempDir |-> FALSE, mapped |-> FALSE,
     chan |-> [i \in IndexIds |-> 0], closed |-> FALSE,
     sorterPc |-> [i \in IndexIds |-> "idle"],
     rowsLeft |-> rows, nextKey |-> [w \in 1..workers |-> 1],
     buffers |-> [w \in 1..workers |-> [i \in IndexIds |-> 0]],
     flushPos |-> 1, errs |-> {}, result |-> "none"]

InitBuild ==
    /\ sorter = NewSorter(1, FALSE) /\ added = NoBag /\ merge = NoMerge
    /\ bw = NoWriter /\ iter = NoIter
    /\ csv = S1 /\ scan = NoScan
    /\ store = NoStore /\ query = NoQuery
    /\ \E workers \in 1..MaxWorkers :
       \E rows \in [1..workers -> 0..MaxBuildRows] :
          build = NewBuild(workers, rows)

\* idx.tempDir = ".csvquery_temp"; os.MkdirAll(idx.tempDir)
RunMkdirTemp(ok) ==
    /\ build.pc = "mkdir"
    /\ build' = IF ok THEN [build EXCEPT !.pc = "open", !.tempDir = TRUE]
                      ELSE [build EXCEPT !.pc = "returned", !.result = "error"]
    /\ UNCHANGED <<idxVars, scanVars, queryVars>>

\* parser.NewSIMDParser: a parser that fails to open leaves no mapping behind,
\* and Run returns its error
RunOpenScanner(ok) ==
    /\ build.pc = "open"
    /\ build' = IF ok THEN [build EXCEPT !.pc = "validate", !.mapped = TRUE]
                      ELSE [build EXCEPT !.pc = "returned", !.result = "error"]
    /\ UNCHANGED <<idxVars, scanVars, queryVars>>

\* ValidateColumns over every index definition; on an error Run returns and
\* the deferred scanner.Close runs; otherwise the sorter goroutines start
RunValidate(ok) ==
    /\ build.pc = "validate"
    /\ build' = IF ok
                THEN [build EXCEPT !.pc = "scan",
                                   !.sorterPc = [i \in IndexIds |-> "mkdir"]]
                ELSE [build EXCEPT !.pc = "returned", !.result = "error",
                                   !.mapped = FALSE]
    /\ UNCHANGED <<idxVars, scanVars, queryVars>>

\* a sorter goroutine that returns an error: errors <- "colName: err"
sorterFails(b, i) ==
    [b EXCEPT !.sorterPc[i] = "failed", !.errs = @ \cup {i}]

\* runSorterNode: os.MkdirAll(tempSortDir)
SorterMkdir(i, ok) ==
    /\ build.sorterPc[i] = "mkdir"
    /\ build' = IF ok THEN [build EXCEPT !.sorterPc[i] = "recv"]
                      ELSE sorterFails(build, i)
    /\ UNCHANGED <<idxVars, scanVars, queryVars>>

\* runSorterNode: one turn of "for batch := range ch" with its sorter.Add calls
SorterRecv(i, ok) ==
    /\ build.sorterPc[i] = "recv"
    /\ build.chan[i] > 0
    /\ build' = IF ok THEN [build EXCEPT !.chan[i] = @ - 1]
                      ELSE sorterFails([build EXCEPT !.chan[i] = @ - 1], i)
    /\ UNCHANGED <<idxVars, scanVars, queryVars>>

\* runSorterNode: the range loop ends on the closed and drained channel, then
\* sorter.Finalize and the bloom file
SorterFinish(i, ok) ==
    /\ build.sorterPc[i] = "recv"
    /\ build.chan[i] = 0 /\ build.closed
    /\ build' = IF ok THEN [build EXCEPT !.sorterPc[i] = "done"]
                      ELSE sorterFails(build, i)
    /\ UNCHANGED <<idxVars, scanVars, queryVars>>

\* the handler of Scan for worker w and the next key of its current row:
\* append to the buffer of that index and, once the buffer holds batchSize
\* records, send it; the send waits while the channel is full
HandlerKey(w) ==
    /\ build.pc = "scan"
    /\ w \in 1..build.workers
    /\ build.rowsLeft[w] > 0
    /\ LET i == build.nextKey[w]
           full == build.buffers[w][i] + 1 >= BatchSize
           b1 == IF full
                 THEN [build EXCEPT !.chan[i] = @ + 1, !.buffers[w][i] = 0]
                 ELSE [build EXCEPT !.buffers[w][i] = @ + 1]
       IN /\ full => build.chan[i] < ChannelCap
          /\ build' = IF i < NumIndexes
                      THEN [b1 EXCEPT !.nextKey[w] = i + 1]
                      ELSE [b1 EXCEPT !.nextKey[w] = 1, !.rowsLeft[w] = @ - 1]
    /\ UNCHANGED <<idxVars, scanVars, queryVars>>

\* Scan returns, always nil, when every worker has handled its rows
RunScanReturn ==
    /\ build.pc = "scan"
    /\ \A w \in 1..build.workers : build.rowsLeft[w] = 0
    /\ build' = [build EXCEPT !.pc = "flush"]
    /\ UNCHANGED <<idxVars, scanVars, queryVars>>

\* one turn of the final loop over workerBuffers[w][i]: a buffer that holds
\* records is sent, and the send waits while the channel is full
RunFlush ==
    /\ build.pc = "flush"
    /\ build.flushPos <= build.workers * NumIndexes
    /\ LET w == ((build.flushPos - 1) \div NumIndexes) + 1
           i == ((build.flushPos - 1) % NumIndexes) + 1
       IN IF build.buffers[w][i] > 0
          THEN /\ build.chan[i] < ChannelCap
               /\ build' = [build EXCEPT !.chan[i] = @ + 1,
                                         !.buffers[w][i] = 0,
                                         !.flushPos = @ + 1]
          ELSE build' = [build EXCEPT !.flushPos = @ + 1]
    /\ UNCHANGED <<idxVars, scanVars, queryVars>>

\* close(ch) for every channel; the scan error is nil
RunClose ==
    /\ build.pc = "flush"
    /\ build.flushPos > build.workers * NumIndexes
    /\ build' = [build EXCEPT !.pc = "wait", !.closed = TRUE]
    /\ UNCHANGED <<idxVars, scanVars, queryVars>>

\* wg.Wait, the errors collected, idx.Cleanup, saveMeta, the return value and
\* the deferred scanner.Close
RunWait(metaOk) ==
    /\ build.pc = "wait"
    /\ \A i \in IndexIds : build.sorterPc[i] \in {"done", "failed"}
    /\ build' = [build EXCEPT !.pc = "returned",
                              !.tempDir = FALSE, !.mapped = FALSE,
                              !.result = IF build.errs # {} \/ ~metaOk
                                         THEN "error" ELSE "ok"]
    /\ UNCHANGED <<idxVars, scanVars, queryVars>>

\* the steps of the goroutine that called Run
RunSteps ==
    \/ \E ok \in BOOLEAN : RunMkdirTemp(ok)
    \/ \E ok \in BOOLEAN : RunOpenScanner(ok)
    \/ \E ok \in BOOLEAN : RunValidate(ok)
    \/ RunScanReturn
    \/ RunFlush
    \/ RunClose
    \/ \E metaOk \in BOOLEAN : RunWait(metaOk)

\* the steps of the sorter goroutine of index i
SorterSteps(i) ==
    \/ \E ok \in BOOLEAN : SorterMkdir(i, ok)
    \/ \E ok \in BOOLEAN : SorterRecv(i, ok)
    \/ \E ok \in BOOLEAN : SorterFinish(i, ok)

NextBuild ==
    \/ RunSteps
    \/ \E i \in IndexIds : SorterSteps(i)
    \/ \E w \in 1..MaxWorkers : HandlerKey(w)

SpecBuild == InitBuild /\ [][NextBuild]_vars

\* the Go scheduler runs every goroutine that can take a step
FairSpecBuild ==
    /\ SpecBuild
    /\ WF_vars(RunSteps)
    /\ \A i \in IndexIds : WF_vars(SorterSteps(i))
    /\ \A w \in 1..MaxWorkers : WF_vars(HandlerKey(w))

----------------------------------------------------------------------------
(* Properties of SpecBuild *)

\* C26: on every path by which the index build returns after its temp
\* directory was created, the temp directory has been removed and the
\* mapping of the scanner has been released.
C26_CleanupOnEveryReturn ==
    (build.pc = "returned" /\ build.result # "none")
        => (~build.tempDir /\ ~build.mapped)

\* C27: the index build always terminates: once a sorter goroutine has failed,
\* Run returns in the end, with an error that names the failed index.
C27_BuildTerminatesAfterSorterFailure ==
    \A i \in IndexIds :
        (build.pc # "none" /\ build.sorterPc[i] = "failed")
            ~> (build.pc = "returned" /\ build.result = "error"
                   /\ i \in build.errs)

----------------------------------------------------------------------------
(* Specification SpecRagged: full scans over CSV files whose rows may lack the *)
(* dept column, with and without an override on line 3.                        *)

\* what follows "k,<name>" in a row: a dept cell, or nothing for a short row
RowTails == {<<Comma>> \o Eng, <<Comma>> \o Sales, <<>>}

RECURSIVE raggedRows(_, _)
raggedRows(tails, k) ==
    IF k > Len(tails) THEN <<>>
    ELSE <<48 + k, Comma, 64 + k>> \o tails[k] \o <<NewLine>> \o raggedRows(tails, k + 1)

RaggedCsvPool ==
    {<<105, Comma, 110, Comma, 100, NewLine>> \o raggedRows(tails, 1) :
        tails \in UNION {[1..n -> RowTails] : n \in 1..MaxRows}}

RaggedRequestPool ==
    {Request(Leaf(op, ColDept, v), <<>>, "", FALSE) :
        op \in {"IS NULL", "IS NOT NULL", "=", "!=", "<", ">=", "LIKE"}, v \in {Eng, Ops}}

InitRagged ==
    /\ csv \in RaggedCsvPool
    /\ store \in {[tree |-> t, indexes |-> {}, updates |-> u,
                      updatesFile |-> IF u = EmptyMap THEN "absent" ELSE "valid"] :
                     t \in {"pkg", "go"}, u \in {EmptyMap, S4}}
    /\ query = NoQuery
    /\ scan = NoScan
    /\ sorter = NewSorter(1, FALSE)
    /\ added = NoBag
    /\ merge = NoMerge
    /\ bw = NoWriter
    /\ iter = NoIter
    /\ build = NoBuild

NextRagged == \E req \in RaggedRequestPool : QueryRun(req)

SpecRagged == InitRagged /\ [][NextRagged]_vars

\* the map of one row alone: its own columns after its own overrides
ownRowMap(r) ==
    rowMapOf(headerNames(csv),
             applyOverride(headerNames(csv), r.cols, GetRow(store.updates, r.line)),
             EmptyMap)

\* the rows of the file that lack the column the request compares
shortRows(req) ==
    {r \in csvRows : headerIndex(headerNames(csv), req.where.column) >= Len(r.cols)}

\* C35: a full scan emits exactly the rows whose own column values, after
\* their own overrides, satisfy the condition; a row that lacks the compared
\* column is emitted for IS NULL and for no other operator, whatever the rows
\* before it hold.
C35_RowsAreEvaluatedOnTheirOwn ==
    (query.done /\ query.out.strategy = "FullScan" /\ ~query.out.failed) =>
        /\ {query.out.rows[i] : i \in 1..Len(query.out.rows)}
              = positionsOf({r \in csvRows : Evaluate(query.req.where, ownRowMap(r))})
        /\ \A r \in shortRows(query.req) :
              ([offset |-> r.offset, line |-> r.line]
                  \in {query.out.rows[i] : i \in 1..Len(query.out.rows)})
                 <=> query.req.where.op = "IS NULL"

----------------------------------------------------------------------------
(* Specification SpecMmap: the index path of one query with the bloom file     *)
(* mapped into memory.  DeserializeBloom keeps bits as a slice of the mapped   *)
(* data, so the filter is readable only while the mapping stands.  query       *)
(* holds the position in the query function, the calls it has deferred, the    *)
(* mapping, and every MightContain call with the state of the mapping at it.   *)

BloomFilePool ==
    {<<>>, Serialize(NewBloomFilter), Serialize(BloomAdd(NewBloomFilter, <<97>>)),
     Serialize(BloomAdd(BloomAdd(NewBloomFilter, <<97>>), <<98>>))}

MaxBlocks == 2

\* LoadBloomFilterMmap(path): open, map, close, DeserializeBloom; a file that
\* is no filter is unmapped at once and no handle is returned
LoadBloomFilterMmap(data, openOk, mmapOk) ==
    IF ~openOk \/ ~mmapOk
    THEN [err |-> TRUE, bloom |-> DeserializeBloom(<<>>), mapped |-> FALSE, handle |-> FALSE]
    ELSE IF Len(data) < 3 * BloomFieldBytes
    THEN [err |-> TRUE, bloom |-> DeserializeBloom(<<>>), mapped |-> FALSE, handle |-> FALSE]
    ELSE [err |-> FALSE, bloom |-> DeserializeBloom(data), mapped |-> TRUE, handle |-> TRUE]

\* the cleanup handle: storage.MunmapFile(data)
bloomCleanup(q) == [q EXCEPT !.mapped = FALSE, !.unmaps = @ + 1]

\* a deferred call when it runs: the handle itself, DiskIndex.Close (the handle
\* when there is one, then file.Close), or a Close that touches no mapping
invoke(q, fn) ==
    IF fn = "bloomCleanup" THEN bloomCleanup(q)
    ELSE IF fn = "idx.Close" THEN (IF q.handle THEN bloomCleanup(q) ELSE q)
    ELSE q

\* a call made where it is written instead of at the return
callNow(q, fn) == invoke(q, fn)

\* defer fn(): fn runs when the function returns, after the calls deferred later
deferCall(q, fn) == [q EXCEPT !.defers = Append(@, fn)]

InitMmap ==
    /\ store \in {[tree |-> t, hasSearchKey |-> h, key |-> k, bloomPresent |-> p,
                      bloomFile |-> IF p THEN f ELSE <<>>, blocks |-> n] :
                     t \in {"pkg", "go"}, h \in BOOLEAN, k \in {<<97>>, <<98>>},
                     p \in BOOLEAN, f \in BloomFilePool, n \in 0..MaxBlocks}
    /\ query = [done |-> FALSE, pc |-> "open", defers |-> <<>>, mapped |-> FALSE,
                handle |-> FALSE, bloom |-> DeserializeBloom(<<>>), loaded |-> FALSE,
                unmaps |-> 0, probes |-> <<>>, blocksLeft |-> 0, err |-> FALSE]
    /\ csv = S1 /\ scan = NoScan
    /\ sorter = NewSorter(1, FALSE) /\ added = NoBag /\ merge = NoMerge
    /\ bw = NoWriter /\ iter = NoIter
    /\ build = NoBuild

\* os.Open(indexPath) and NewBlockReader: in go/ by Run itself, which defers
\* indexFile.Close(); in pkg inside OpenDiskIndex, which closes the file itself
\* when the reader fails
MmapOpen(outcome) ==
    /\ query.pc = "open"
    /\ query' =
          IF outcome = "noopen" THEN [query EXCEPT !.pc = "return", !.err = TRUE]
          ELSE IF store.tree = "go"
          THEN [deferCall(query, "indexFile.Close")
                EXCEPT !.pc = IF outcome = "nofooter" THEN "return"
                              ELSE IF store.hasSearchKey THEN "bloom" ELSE "findStart",
                       !.err = outcome = "nofooter"]
          ELSE [query EXCEPT !.pc = IF outcome = "nofooter" THEN "return" ELSE "bloom",
                             !.err = outcome = "nofooter"]
    /\ UNCHANGED <<store, csv, scan, idxVars, build>>

\* the bloom file next to the index: os.Stat, then LoadBloomFilterMmap.  Run of
\* go/ defers the handle; OpenDiskIndex keeps it in the index, whose Close the
\* Executor defers
MmapLoad(openOk, mmapOk) ==
    /\ query.pc = "bloom"
    /\ LET r == LoadBloomFilterMmap(store.bloomFile, openOk, mmapOk)
           ok == store.bloomPresent /\ ~r.err
           q1 == IF ok THEN [query EXCEPT !.bloom = r.bloom, !.loaded = TRUE,
                                          !.mapped = r.mapped, !.handle = r.handle]
                 ELSE query
       IN query' =
             IF store.tree = "go"
             THEN [(IF ok THEN deferCall(q1, "bloomCleanup") ELSE q1)
                   EXCEPT !.pc = IF ok THEN "probe" ELSE "findStart"]
             ELSE [deferCall(q1, "idx.Close")
                   EXCEPT !.pc = IF ok /\ store.hasSearchKey THEN "probe" ELSE "findStart"]
    /\ UNCHANGED <<store, csv, scan, idxVars, build>>

\* bloom.MightContain(searchKey), in Run of go/ and in DiskIndex.Search: it
\* reads the mapped bytes; on an unmapped filter the read may give anything
MmapProbe(answer) ==
    /\ query.pc = "probe"
    /\ query.mapped => answer = MightContain(query.bloom, store.key)
    /\ LET q1 == [query EXCEPT !.probes = Append(@, [mapped |-> query.mapped,
                                                       answer |-> answer])]
       IN query' =
             IF answer THEN [q1 EXCEPT !.pc = "findStart"]
             ELSE IF store.tree = "go" THEN [q1 EXCEPT !.pc = "return"]
             ELSE [deferCall(q1, "iter.Close") EXCEPT !.pc = "return"]
    /\ UNCHANGED <<store, csv, scan, idxVars, build>>

\* findStartBlock (or Scan without a search key): no block to start from ends
\* the query, else the blocks are read one after the other
MmapFindStart ==
    /\ query.pc = "findStart"
    /\ LET q1 == IF store.tree = "go" THEN query ELSE deferCall(query, "iter.Close")
       IN query' = [q1 EXCEPT !.pc = IF store.blocks = 0 THEN "return" ELSE "blocks",
                              !.blocksLeft = store.blocks]
    /\ UNCHANGED <<store, csv, scan, idxVars, build>>

\* ReadBlock for the next block; an error ends the query
MmapReadBlock(ok) ==
    /\ query.pc = "blocks"
    /\ query' = IF ~ok THEN [query EXCEPT !.pc = "return", !.err = TRUE]
                ELSE [query EXCEPT !.blocksLeft = @ - 1,
                                   !.pc = IF query.blocksLeft = 1 THEN "return" ELSE @]
    /\ UNCHANGED <<store, csv, scan, idxVars, build>>

\* the return of the query function: the deferred calls run last in, first out
MmapDeferred ==
    /\ query.pc = "return"
    /\ Len(query.defers) > 0
    /\ query' = invoke([query EXCEPT !.defers = SubSeq(@, 1, Len(@) - 1)],
                       query.defers[Len(query.defers)])
    /\ UNCHANGED <<store, csv, scan, idxVars, build>>

MmapClosed ==
    /\ query.pc = "return"
    /\ Len(query.defers) = 0
    /\ query' = [query EXCEPT !.pc = "closed", !.done = TRUE]
    /\ UNCHANGED <<store, csv, scan, idxVars, build>>

NextMmap ==
    \/ \E outcome \in {"ok", "noopen", "nofooter"} : MmapOpen(outcome)
    \/ \E openOk, mmapOk \in BOOLEAN : MmapLoad(openOk, mmapOk)
    \/ \E answer \in BOOLEAN : MmapProbe(answer)
    \/ MmapFindStart
    \/ \E ok \in BOOLEAN : MmapReadBlock(ok)
    \/ MmapDeferred
    \/ MmapClosed

SpecMmap == InitMmap /\ [][NextMmap]_vars

\* C36: every MightContain call on a mapped filter is made while the mapping
\* stands, the handle is never invoked twice, and once the query is closed the
\* handle of a loaded filter has been invoked exactly once.
C36_ProbesPrecedeTheUnmap ==
    /\ \A i \in 1..Len(query.probes) : query.probes[i].mapped
    /\ query.unmaps <= 1
    /\ query.done => /\ query.unmaps = (IF query.handle THEN 1 ELSE 0)
                     /\ ~query.mapped

\* C36 witness: a closed query that probed the filter, found the key possible,
\* failed on a block read, and whose handle has run
C36_Witness ==
    /\ query.done
    /\ Len(query.probes) = 1
    /\ query.probes[1].answer
    /\ query.err
    /\ query.unmaps = 1

----------------------------------------------------------------------------
(* Specification SpecChunks: one scan of either parser over files with         *)
(* headers of several lengths, with up to MaxChunkWorkers workers, more than   *)
(* the file has data bytes.                                                    *)

MaxChunkWorkers == 4

MaxChunkBody == 4

HeaderPool == {<<NewLine>>, HeaderLine, <<104, 104, NewLine>>}

ChunkBodies == UNION {[1..n -> ScanAlphabet] : n \in 0..MaxChunkBody}

InitChunks ==
    /\ csv \in {header \o body : header \in HeaderPool, body \in ChunkBodies}
    /\ scan \in {[NoScan EXCEPT !.impl = impl, !.round = 2] :
                    impl \in {"SIMDParser", "Scanner"}}
    /\ sorter = NewSorter(1, FALSE)
    /\ added = NoBag
    /\ merge = NoMerge
    /\ bw = NoWriter
    /\ iter = NoIter
    /\ store = NoStore
    /\ query = NoQuery
    /\ build = NoBuild

NextChunks ==
    \/ \E workers \in 1..MaxChunkWorkers : ScanStart(workers)
    \/ \E workerID \in 0..(MaxChunkWorkers - 1) : WorkerRun(workerID)
    \/ ScanReturn

SpecChunks == InitChunks /\ [][NextChunks]_vars

\* the workers whose chunk holds the byte at pos
workersOf(b, workers, pos) == {i \in 0..(workers - 1) : b[i] <= pos /\ pos < b[i + 1]}

\* C37: the boundaries of a scan start at the first byte after the header, end
\* at the end of the data and never decrease, so every data byte lies in the
\* chunk of exactly one worker, also with more workers than data bytes.
C37_ChunksTileTheData ==
    (scan.phase # "idle" /\ scan.boundaries # <<>>) =>
        LET b == scan.boundaries IN
        /\ b[0] = startIdxOf(csv)
        /\ b[scan.workers] = Len(csv)
        /\ \A i \in 0..(scan.workers - 1) : b[i] <= b[i + 1]
        /\ \A pos \in startIdxOf(csv)..(Len(csv) - 1) :
              Cardinality(workersOf(b, scan.workers, pos)) = 1

\* C37 witness: a finished scan with more workers than the file has data
\* bytes, over data of several bytes that holds a newline before its end
C37_Witness ==
    /\ scan.phase = "done"
    /\ scan.boundaries # <<>>
    /\ Len(csv) - startIdxOf(csv) >= 2
    /\ scan.workers > Len(csv) - startIdxOf(csv)
    /\ \E i \in 1..(scan.workers - 1) :
          scan.boundaries[i] > startIdxOf(csv) /\ scan.boundaries[i] < Len(csv)

----------------------------------------------------------------------------
(* Specification SpecPaths: the files the sorter goroutines of one build open  *)
(* for writing.  The column specification is the decoded JSON array; every     *)
(* definition it yields gets a goroutine, and each goroutine makes its temp    *)
(* directory, writes chunk files there, then its index file and bloom file.    *)

MaxSpecItems == 2

MaxSpills == 1

\* the items of the columns array: strings, arrays of strings (also empty),
\* and a number
ColumnItemPool ==
    {[kind |-> "string", cols |-> <<c>>] : c \in {<<97>>, <<65>>, <<98>>, <<97, 95, 98>>}}
    \cup {[kind |-> "array", cols |-> cs] : cs \in {<<>>, <<<<97>>>>, <<<<97>>, <<98>>>>}}
    \cup {[kind |-> "number", cols |-> <<>>]}

\* parseColumns: a string is a one-column definition, a non-empty array of
\* strings a definition, anything else is passed over
RECURSIVE parseColumns(_)
parseColumns(items) ==
    IF Len(items) = 0 THEN <<>>
    ELSE LET item == items[1]
             rest == parseColumns(Tail(items))
         IN IF item.kind = "string" THEN <<item.cols>> \o rest
            ELSE IF item.kind = "array" /\ Len(item.cols) > 0 THEN <<item.cols>> \o rest
            ELSE rest

\* colName := strings.ToLower(strings.Join(columns, "_"))
colNameOf(columns) == ToLower(Join(columns))

\* the name of the CSV file without its extension: "d"
CsvBaseName == <<100>>

\* indexPath: <csvName>_<name>.cidx
indexPathOf(name) == CsvBaseName \o <<95>> \o name \o <<46, 99, 105, 100, 120>>

\* bloomPath: indexPath + ".bloom"
bloomPathOf(name) == indexPathOf(name) \o <<46, 98, 108, 111, 111, 109>>

\* tempSortDir: sort_<name>
tempSortDirOf(name) == <<115, 111, 114, 116, 95>> \o name

\* chunkPath: <tempDir>/chunk_<n>.tmp
chunkPathOf(tempDir, n) ==
    tempDir \o <<47, 99, 104, 117, 110, 107, 95>> \o itoa(n) \o <<46, 116, 109, 112>>

NewPaths(items, withBloom) ==
    LET colDefs == parseColumns(items) IN
    [pc |-> IF Len(colDefs) = 0 THEN "rejected" ELSE "paths",
     colDefs |-> colDefs, withBloom |-> withBloom,
     task |-> [i \in 1..Len(colDefs) |->
                  [pc |-> "mkdir", name |-> colNameOf(colDefs[i]), tempDir |-> <<>>,
                   chunks |-> 0, open |-> <<>>, written |-> {}]]]

InitPaths ==
    /\ sorter = NewSorter(1, FALSE) /\ added = NoBag /\ merge = NoMerge
    /\ bw = NoWriter /\ iter = NoIter
    /\ csv = S1 /\ scan = NoScan
    /\ store = NoStore /\ query = NoQuery
    /\ \E items \in UNION {[1..n -> ColumnItemPool] : n \in 1..MaxSpecItems} :
       \E withBloom \in BOOLEAN :
          build = NewPaths(items, withBloom)

\* task i opens path for writing
opened(b, i, path) ==
    [b EXCEPT !.task[i].open = path, !.task[i].written = @ \cup {path}]

\* runSorterNode: os.MkdirAll(tempSortDir)
PathsMkdir(i) ==
    /\ build.pc = "paths" /\ i \in DOMAIN build.task
    /\ build.task[i].pc = "mkdir"
    /\ build' = [build EXCEPT !.task[i].pc = "collect",
                              !.task[i].tempDir = tempSortDirOf(build.task[i].name)]
    /\ UNCHANGED <<idxVars, scanVars, queryVars>>

\* flushChunk: os.Create(chunkPath) for chunk number len(chunkFiles)
PathsChunkCreate(i) ==
    /\ build.pc = "paths" /\ i \in DOMAIN build.task
    /\ build.task[i].pc = "collect"
    /\ build.task[i].chunks < MaxSpills
    /\ build' = [opened(build, i, chunkPathOf(build.task[i].tempDir, build.task[i].chunks))
                 EXCEPT !.task[i].pc = "chunk"]
    /\ UNCHANGED <<idxVars, scanVars, queryVars>>

\* flushChunk: the chunk is written and closed, and joins chunkFiles
PathsChunkClose(i) ==
    /\ build.pc = "paths" /\ i \in DOMAIN build.task
    /\ build.task[i].pc = "chunk"
    /\ build' = [build EXCEPT !.task[i].pc = "collect", !.task[i].open = <<>>,
                              !.task[i].chunks = @ + 1]
    /\ UNCHANGED <<idxVars, scanVars, queryVars>>

\* Finalize: os.Create(s.outputPath), with or without chunks
PathsOutputCreate(i) ==
    /\ build.pc = "paths" /\ i \in DOMAIN build.task
    /\ build.task[i].pc = "collect"
    /\ build' = [opened(build, i, indexPathOf(build.task[i].name))
                 EXCEPT !.task[i].pc = "merge"]
    /\ UNCHANGED <<idxVars, scanVars, queryVars>>

\* Finalize returns: the output file is closed
PathsOutputClose(i) ==
    /\ build.pc = "paths" /\ i \in DOMAIN build.task
    /\ build.task[i].pc = "merge"
    /\ build' = [build EXCEPT !.task[i].open = <<>>,
                              !.task[i].pc = IF build.withBloom THEN "bloom" ELSE "done"]
    /\ UNCHANGED <<idxVars, scanVars, queryVars>>

\* runSorterNode: os.WriteFile(bloomPath, ...) begins
PathsBloomCreate(i) ==
    /\ build.pc = "paths" /\ i \in DOMAIN build.task
    /\ build.task[i].pc = "bloom"
    /\ build' = [opened(build, i, bloomPathOf(build.task[i].name))
                 EXCEPT !.task[i].pc = "bloomOpen"]
    /\ UNCHANGED <<idxVars, scanVars, queryVars>>

\* os.WriteFile returns
PathsBloomClose(i) ==
    /\ build.pc = "paths" /\ i \in DOMAIN build.task
    /\ build.task[i].pc = "bloomOpen"
    /\ build' = [build EXCEPT !.task[i].open = <<>>, !.task[i].pc = "done"]
    /\ UNCHANGED <<idxVars, scanVars, queryVars>>

NextPaths ==
    \E i \in 1..MaxSpecItems :
        \/ PathsMkdir(i)
        \/ PathsChunkCreate(i)
        \/ PathsChunkClose(i)
        \/ PathsOutputCreate(i)
        \/ PathsOutputClose(i)
        \/ PathsBloomCreate(i)
        \/ PathsBloomClose(i)

SpecPaths == InitPaths /\ [][NextPaths]_vars

\* C39: within one build no two sorter goroutines have the same file open for
\* writing, nor write the same index, bloom or temp chunk file at any time:
\* the paths of different definitions are distinct, also when the specification
\* names a column or a group twice or a column called like a joined group.
C39_SorterPathsAreDistinct ==
    build.pc = "paths" =>
        \A i, j \in DOMAIN build.task :
            i # j =>
                /\ build.task[i].written \cap build.task[j].written = {}
                /\ build.task[i].open # <<>> => build.task[i].open # build.task[j].open

----------------------------------------------------------------------------
(* Specification SpecTile: one block writer handed up to MaxTileWrites         *)
(* records and closed; the file is the magic, the blocks in the order they     *)
(* were written, the directory and the trailing length.                        *)

MaxTileWrites == 5

TileRecPool ==
    {[key |-> copyKey(k), offset |-> 2, line |-> 3] : k \in {<<97>>, <<98>>, <<98, 98>>}}

InitTile ==
    /\ bw = NewBlockWriter
    /\ added = <<>>
    /\ iter = NoIter
    /\ sorter = NewSorter(1, FALSE)
    /\ merge = NoMerge
    /\ csv = <<>>
    /\ scan = NoScan
    /\ store = NoStore
    /\ query = NoQuery
    /\ build = NoBuild

\* BlockWriter.WriteRecord(rec)
TileWrite(rec) ==
    /\ ~bw.file.footer
    /\ Len(added) < MaxTileWrites
    /\ bw' = WriteRecord(bw, rec)
    /\ added' = Append(added, rec)
    /\ UNCHANGED <<sorter, merge, iter, scanVars, queryVars, build>>

NextTile ==
    \/ \E rec \in TileRecPool : TileWrite(rec)
    \/ BlockClose

SpecTile == InitTile /\ [][NextTile]_vars

\* the file offset at which the k-th block written lies: behind the magic and
\* the blocks written before it
RECURSIVE blockPosition(_, _)
blockPosition(file, k) ==
    IF k = 1 THEN MagicLen
    ELSE blockPosition(file, k - 1) + Len(file.blocks[k - 1].bytes)

\* the length of the closed file
fileSize(file) ==
    blockPosition(file, Len(file.blocks) + 1) + Len(file.directory) + Len(file.trailer)

\* C40: after Close the directory entries tile the block region of the file:
\* the first block lies at offset 4, every next block where the one before it
\* ends, each entry at the place and with the length of the bytes written for
\* it; the directory begins where the last block ends and the trailing integer
\* is its length; every entry counts at least one record and every block but
\* the last holds the same number of records.
C40_DirectoryTilesTheFile ==
    bw.file.footer =>
        LET dir == bw.sparseIndex
            footerLen == ReadInt64(bw.file.trailer)
        IN /\ Len(dir) = Len(bw.file.blocks)
           /\ Len(dir) >= 1 => dir[1].offset = 4
           /\ \A k \in 1..(Len(dir) - 1) : dir[k + 1].offset = dir[k].offset + dir[k].length
           /\ \A k \in 1..Len(dir) :
                 /\ dir[k].offset = blockPosition(bw.file, k)
                 /\ dir[k].length = Len(bw.file.blocks[k].bytes)
                 /\ dir[k].recordCount >= 1
           /\ \A k \in 1..(Len(dir) - 1) : dir[k].recordCount = dir[1].recordCount
           /\ Len(bw.file.trailer) = Int64Bytes
           /\ footerLen = Len(bw.file.directory)
           /\ fileSize(bw.file) - Int64Bytes - footerLen
                 = (IF Len(dir) = 0 THEN 4
                    ELSE dir[Len(dir)].offset + dir[Len(dir)].length)

\* C40 witness: a closed file of three blocks, the last one shorter than the
\* others, the second one holding two keys
C40_Witness ==
    /\ bw.file.footer
    /\ Len(bw.sparseIndex) = 3
    /\ bw.sparseIndex[3].recordCount < bw.sparseIndex[1].recordCount
    /\ ~bw.sparseIndex[2].isDistinct

----------------------------------------------------------------------------
(* Specification SpecHandOff: the memory behind the scan handler of            *)
(* IndexManager.Run for one composite index.  scratch[w] is the scratch        *)
(* buffer of worker w, which parseLineSimd truncates and refills for every     *)
(* row; keys[i] is a slice of it.  arrays are the backing arrays made for      *)
(* the worker buffers, a buffer and a batch are an array and a length.         *)

\* one composite index on columns 0 and 1
HandOffIndexDefs == << <<0, 1>> >>

\* the rows a worker may parse: the values of columns 0 and 1
RowValuePool == {<< <<97>>, <<97>> >>, << <<98>>, <<98>> >>}

\* the byte offset of the k-th row of worker w
rowOffset(w, k) == 10 * w + k

RowSeqs == UNION {[1..n -> RowValuePool] : n \in 0..MaxBuildRows}

\* the scan runs with one worker or with two
HandOffWorkers == {1, 2}

\* the key a record would hold if it kept the slice it was handed
recordKeyAliased(scratch, w, start, end) ==
    [alias |-> TRUE, bytes |-> <<>>, buf |-> w, start |-> start, end |-> end]

\* "var keyBytes [64]byte; copy(keyBytes[:], key)": the record holds its own
\* copy of the bytes the slice shows at the call
recordKey(scratch, w, start, end) ==
    [alias |-> FALSE, bytes |-> copyKey(slice(scratch[w], start, end)),
     buf |-> w, start |-> start, end |-> end]

\* the key bytes a record shows when it is read
keyBytesOf(scratch, key) ==
    IF key.alias THEN copyKey(slice(scratch[key.buf], key.start, key.end))
    ELSE key.bytes

\* append(buffers[i], rec) on a slice of length n of the backing array arr
put(arr, n, rec) ==
    [i \in 1..(IF Len(arr) > n + 1 THEN Len(arr) ELSE n + 1) |->
        IF i = n + 1 THEN rec ELSE arr[i]]

NewHandOff(workers, rows) ==
    [pc |-> "handoff", workers |-> workers, input |-> rows,
     done |-> [w \in 1..workers |-> 0],
     scratch |-> [w \in 1..workers |-> <<>>],
     arrays |-> [w \in 1..workers |-> <<>>],
     buffers |-> [w \in 1..workers |-> [arr |-> w, len |-> 0]],
     sent |-> <<>>]

InitHandOff ==
    /\ sorter = NewSorter(1, FALSE) /\ added = NoBag /\ merge = NoMerge
    /\ bw = NoWriter /\ iter = NoIter
    /\ csv = S1 /\ scan = NoScan
    /\ store = NoStore /\ query = NoQuery
    /\ \E workers \in HandOffWorkers :
       \E rows \in [1..workers -> RowSeqs] :
          build = NewHandOff(workers, rows)

\* "channels[i] <- batchToSend; buffers[i] = make(...)": the batch goes to the
\* sorter and the worker gets a new backing array
sendBatch(b, w) ==
    [b EXCEPT !.sent = Append(@, [arr |-> b.buffers[w].arr, len |-> b.buffers[w].len,
                                  snapshot |-> SubSeq(b.arrays[b.buffers[w].arr], 1,
                                                      b.buffers[w].len)]),
              !.arrays = Append(@, <<>>),
              !.buffers[w] = [arr |-> Len(b.arrays) + 1, len |-> 0]]

\* the record appended to the buffer of worker w
appendRecord(b, w, rec) ==
    [b EXCEPT !.arrays[b.buffers[w].arr] = put(@, b.buffers[w].len, rec),
              !.buffers[w].len = @ + 1]

\* parseLineSimd and the handler for the next row of worker w: the scratch
\* buffer is truncated and refilled with the composite key, the handler copies
\* the key into a record, appends it and sends the buffer once it is full
HandOffRow(w) ==
    /\ build.pc = "handoff"
    /\ w \in 1..build.workers
    /\ build.done[w] < Len(build.input[w])
    /\ LET k == build.done[w] + 1
           key == keyOf(build.input[w][k], HandOffIndexDefs[1])
           b1 == [build EXCEPT !.scratch[w] = key, !.done[w] = k]
           rec == [key |-> recordKey(b1.scratch, w, 0, Len(key)),
                   offset |-> rowOffset(w, k), line |-> k + 1]
           b2 == appendRecord(b1, w, rec)
       IN build' = IF b2.buffers[w].len >= BatchSize THEN sendBatch(b2, w) ELSE b2
    /\ UNCHANGED <<idxVars, scanVars, queryVars>>

\* the final loop of Run over the buffers that still hold records
HandOffFlush(w) ==
    /\ build.pc = "handoff"
    /\ w \in 1..build.workers
    /\ \A v \in 1..build.workers : build.done[v] = Len(build.input[v])
    /\ build.buffers[w].len > 0
    /\ build' = sendBatch(build, w)
    /\ UNCHANGED <<idxVars, scanVars, queryVars>>

NextHandOff ==
    \/ \E w \in 1..MaxWorkers : HandOffRow(w)
    \/ \E w \in 1..MaxWorkers : HandOffFlush(w)

SpecHandOff == InitHandOff /\ [][NextHandOff]_vars

\* the key of the row of worker w at offset: the composite of its two values
keyOfRowAt(b, offset) ==
    LET w == offset \div 10
        k == offset % 10
    IN copyKey(keyOf(b.input[w][k], HandOffIndexDefs[1]))

\* C33: every record of a batch that was sent holds the key bytes of the row it
\* was made for, whatever the same worker parsed or appended later, and no two
\* workers append to the same buffer.
C33_SentRecordsKeepTheirKeys ==
    build.pc = "handoff" =>
        /\ \A n \in 1..Len(build.sent) :
              LET batch == build.sent[n] IN
              /\ SubSeq(build.arrays[batch.arr], 1, batch.len) = batch.snapshot
              /\ \A i \in 1..batch.len :
                    keyBytesOf(build.scratch, build.arrays[batch.arr][i].key)
                        = keyOfRowAt(build, build.arrays[batch.arr][i].offset)
        /\ \A v, w \in 1..build.workers :
              v # w => build.buffers[v].arr # build.buffers[w].arr

\* C33 witness: a worker has sent a batch and has since parsed a row with
\* another key and appended its record, next to a second worker
C33_Witness ==
    /\ build.pc = "handoff"
    /\ build.workers = 2
    /\ \E n \in 1..Len(build.sent) : \E w \in 1..build.workers :
          /\ build.sent[n].snapshot[1].key.buf = w
          /\ build.buffers[w].len >= 1
          /\ copyKey(build.scratch[w]) # build.sent[n].snapshot[1].key.bytes

====
